---- MODULE Spec2Model ----
(***************************************************************************)
(* Morfessor Baseline (src/morfessor.py): the construction store           *)
(* (BaselineModel.analyses), its cost accumulators (Encoding,              *)
(* CorpusEncoding, LexiconEncoding), the recursive and Viterbi optimizers  *)
(* and the batch / online training loops.                                  *)
(*                                                                         *)
(* A construction is a sequence of atoms.  Python floats are modelled as   *)
(* fixed-point integers in units of 1/LogScale; math.log is a table of     *)
(* rounded values, so sums and differences are exact and comparisons are   *)
(* those of the rounded values.                                            *)
(***************************************************************************)
EXTENDS Integers, Sequences, FiniteSets, TLC

(***************************************************************************)
(* Bounds of the model.                                                    *)
(***************************************************************************)
\* largest maxlen argument given to the Viterbi search
MaxLen == 3
\* largest corpus boundary count (sum of the counts given to _add_compound)
MaxBoundaries == 3

\* significant bits of a float of the model (the program's floats carry 53)
MantissaBits == 10

\* most calls of update_count made on one accumulator
MaxCalls == 3

\* longest list given to load_segmentations
MaxEntries == 2

\* longest corpus given to load_data
MaxCorpus == 2

\* most corpus tokens added by direct count increases
MaxRaised == 1

\* most compounds of a segmentation set given to _bpr_evaluation
MaxWords == 2

\* longest stream given to train_online
MaxStream == 3

\* largest epoch_interval given to train_online
MaxInterval == 2

\* the compounds of the stream of train_online
StreamCompounds == {<<"a", "a">>, <<"b", "a">>, <<"b", "a", "a">>}

\* the compounds of the corpus: words over the atoms "a" and "b" that share
\* constructions ("a" in all of them, "aa" and "ba" in "baa")
Compounds ==
  {<<"a">>, <<"a", "a">>, <<"b", "a">>, <<"b", "a", "a">>}

(***************************************************************************)
(* Fixed-point arithmetic: math.log, _logfactorial                         *)
(***************************************************************************)
\* one unit of a modelled float is 1/LogScale
LogScale == 10 ^ 4

\* round(LogScale * ln(n)) for n = 1..80
LogTable ==
  <<
    0, 6931, 10986, 13863, 16094, 17918, 19459, 20794, 21972, 23026, 23979,
    24849, 25649, 26391, 27081, 27726, 28332, 28904, 29444, 29957, 30445,
    30910, 31355, 31781, 32189, 32581, 32958, 33322, 33673, 34012, 34340,
    34657, 34965, 35264, 35553, 35835, 36109, 36376, 36636, 36889, 37136,
    37377, 37612, 37842, 38067, 38286, 38501, 38712, 38918, 39120, 39318,
    39512, 39703, 39890, 40073, 40254, 40431, 40604, 40775, 40943, 41109,
    41271, 41431, 41589, 41744, 41897, 42047, 42195, 42341, 42485, 42627,
    42767, 42905, 43041, 43175, 43307, 43438, 43567, 43694, 43820
  >>

\* round(LogScale * ln(n!)) for n = 1..19
LogFactorialTable ==
  <<
    0, 6931, 17918, 31781, 47875, 65793, 85252, 106046, 128018, 151044,
    175023, 199872, 225522, 251912, 278993, 306719, 335051, 363954, 393399
  >>

\* math.log raises ValueError (math domain error) outside n > 0
LogDefined(n) == n >= 1

\* math.log(n); 0 stands in where the call raises (see LogDefined)
Log(n) == IF LogDefined(n) THEN LogTable[n] ELSE 0

\* Encoding._log2pi = math.log(2 * math.pi)
Log2Pi == 18379

\* Encoding._logfactorial
LogFactorial(n) ==
  IF n < 2 THEN 0
  ELSE IF n < 20 THEN LogFactorialTable[n]
  ELSE n * Log(n) - n * LogScale + ((Log(n) + Log2Pi) \div 2)

Min(a, b) == IF a < b THEN a ELSE b
Max(a, b) == IF a > b THEN a ELSE b

\* Python's compound[s:e], for 0 <= s and 0 <= e
Slice(c, s, e) ==
  LET e2 == Min(e, Len(c))
      s2 == Min(s, Len(c))
  IN IF s2 >= e2 THEN <<>> ELSE SubSeq(c, s2 + 1, e2)

\* dict assignment d[k] = v
Put(f, k, v) == [x \in (DOMAIN f) \cup {k} |-> IF x = k THEN v ELSE f[x]]

\* del d[k]
Del(f, k) == [x \in (DOMAIN f) \ {k} |-> f[x]]

\* collections.Counter lookup: a missing key reads as 0 and is not inserted
CounterGet(ctr, k) == IF k \in DOMAIN ctr THEN ctr[k] ELSE 0

(***************************************************************************)
(* Cost accumulators                                                       *)
(***************************************************************************)
\* a weight is a rational num/den; the default 1.0 is 1/1
WeightOne == [num |-> 1, den |-> 1]

\* Encoding.__init__ (CorpusEncoding adds nothing to the statistics)
NewEncoding(weight) ==
  [tokens |-> 0, boundaries |-> 0, logtokensum |-> 0, weight |-> weight]

\* LexiconEncoding.__init__
NewLexiconEncoding ==
  [tokens |-> 0, boundaries |-> 0, logtokensum |-> 0, weight |-> WeightOne,
   atoms |-> <<>>]

\* Encoding.update_count with logtokensum an exact number
UpdateCount(enc, old_count, new_count) ==
  [enc EXCEPT
     !.tokens = @ + new_count - old_count,
     !.logtokensum =
        @ - (IF old_count > 1 THEN old_count * Log(old_count) ELSE 0)
          + (IF new_count > 1 THEN new_count * Log(new_count) ELSE 0)]

\* the unit in the last place of a float of MantissaBits bits that holds
\* the magnitude v (v >= 0), found from u upwards
RECURSIVE Ulp(_, _)
Ulp(v, u) == IF v < (2 ^ MantissaBits) * u THEN u ELSE Ulp(v, 2 * u)

\* v (v >= 0) rounded to a multiple of u, ties to the even multiple
RoundTo(v, u) ==
  IF 2 * (v % u) < u THEN (v \div u) * u
  ELSE IF 2 * (v % u) > u THEN ((v \div u) + 1) * u
  ELSE IF (v \div u) % 2 = 0 THEN (v \div u) * u
  ELSE ((v \div u) + 1) * u

\* the float nearest to v: what every float operation of the program
\* returns for the exact result v
Round(v) == IF v < 0 THEN 0 - RoundTo(0 - v, Ulp(0 - v, 1))
            ELSE RoundTo(v, Ulp(v, 1))

\* count * math.log(count) in floats
FloatCountLog(count) == Round(count * Round(Log(count)))

\* (variant) update_count in floats that adds the logarithm term from 3 up
UpdateCountFloatFrom3(enc, old_count, new_count) ==
  [enc EXCEPT
     !.tokens = @ + new_count - old_count,
     !.logtokensum =
        IF new_count > 2
        THEN Round((IF old_count > 1 THEN Round(@ - FloatCountLog(old_count))
                    ELSE @) + FloatCountLog(new_count))
        ELSE IF old_count > 1 THEN Round(@ - FloatCountLog(old_count))
        ELSE @]

\* Encoding.update_count with logtokensum a float: each of the two
\* in-place updates rounds its result
UpdateCountFloat(enc, old_count, new_count) ==
  [enc EXCEPT
     !.tokens = @ + new_count - old_count,
     !.logtokensum =
        IF new_count > 1
        THEN Round((IF old_count > 1 THEN Round(@ - FloatCountLog(old_count))
                    ELSE @) + FloatCountLog(new_count))
        ELSE IF old_count > 1 THEN Round(@ - FloatCountLog(old_count))
        ELSE @]

\* the loop of LexiconEncoding.add over the atoms from position i on
RECURSIVE LexiconAddAtoms(_, _, _)
LexiconAddAtoms(lex, construction, i) ==
  IF i > Len(construction) THEN lex
  ELSE LET atom == construction[i]
           c    == CounterGet(lex.atoms, atom)
           lex1 == [lex EXCEPT !.atoms = Put(@, atom, c + 1)]
       IN LexiconAddAtoms(UpdateCount(lex1, c, c + 1), construction, i + 1)

\* LexiconEncoding.add
LexiconAdd(lex, construction) ==
  LexiconAddAtoms([lex EXCEPT !.boundaries = @ + 1], construction, 1)

\* the loop of LexiconEncoding.remove over the atoms from position i on
RECURSIVE LexiconRemoveAtoms(_, _, _)
LexiconRemoveAtoms(lex, construction, i) ==
  IF i > Len(construction) THEN lex
  ELSE LET atom == construction[i]
           c    == CounterGet(lex.atoms, atom)
           lex1 == [lex EXCEPT !.atoms = Put(@, atom, c - 1)]
       IN LexiconRemoveAtoms(UpdateCount(lex1, c, c - 1), construction, i + 1)

\* LexiconEncoding.remove
LexiconRemove(lex, construction) ==
  LexiconRemoveAtoms([lex EXCEPT !.boundaries = @ - 1], construction, 1)

\* LexiconEncoding.get_types: len(self.atoms) + 1 counts the Counter's keys,
\* also those whose count is back to 0
LexiconGetTypes(lex) == Cardinality(DOMAIN lex.atoms) + 1

\* CorpusEncoding.get_types
CorpusGetTypes(lex) == lex.boundaries

\* Encoding.frequency_distribution_cost
FrequencyDistributionCost(enc, types) ==
  LET tokens == enc.tokens + enc.boundaries
  IN IF types < 2 THEN 0
     ELSE LogFactorial(tokens - 1) - LogFactorial(types - 1)
          - LogFactorial(tokens - types)

\* Encoding.permutations_cost
PermutationsCost(enc) == 0 - LogFactorial(enc.boundaries)

\* x * weight
TimesWeight(x, weight) == (x * weight.num) \div weight.den

\* x / weight
OverWeight(x, weight) == (x * weight.den) \div weight.num

\* Encoding.get_cost raises ValueError when a logarithm's argument is <= 0
EncodingCostDefined(enc) ==
  enc.boundaries = 0
  \/ (LogDefined(enc.tokens + enc.boundaries) /\ LogDefined(enc.boundaries))

\* Encoding.get_cost
EncodingGetCost(enc, types) ==
  IF enc.boundaries = 0 THEN 0
  ELSE LET n == enc.tokens + enc.boundaries
       IN TimesWeight(n * Log(n) - enc.boundaries * Log(enc.boundaries)
                      - enc.logtokensum, enc.weight)
          + PermutationsCost(enc)
          + FrequencyDistributionCost(enc, types)

(***************************************************************************)
(* Construction store.  A model value M is the BaselineModel instance:     *)
(* analyses (construction -> ConstrNode), corpus_coding, lexicon_coding,   *)
(* and err, the exception that ended the running call ("" while none).     *)
(***************************************************************************)
\* ConstrNode namedtuple
ConstrNode(rcount, count, splitloc) ==
  [rcount |-> rcount, count |-> count, splitloc |-> splitloc]

\* BaselineModel.__init__
NewModel(forcesplit, corpusweight) ==
  [analyses |-> <<>>,
   corpus   |-> NewEncoding(corpusweight),
   lexicon  |-> NewLexiconEncoding,
   forcesplit_list |-> forcesplit,
   err      |-> ""]

\* an exception propagates: the rest of the call is not run
Raise(M, e) == IF M.err = "" THEN [M EXCEPT !.err = e] ELSE M

\* BaselineModel._segmentation_to_splitloc
RECURSIVE SegmentationToSplitlocFrom(_, _, _)
SegmentationToSplitlocFrom(constructions, k, i) ==
  IF k >= Len(constructions) THEN <<>>
  ELSE <<i + Len(constructions[k])>>
       \o SegmentationToSplitlocFrom(constructions, k + 1,
                                     i + Len(constructions[k]))

SegmentationToSplitloc(constructions) ==
  SegmentationToSplitlocFrom(constructions, 1, 0)

\* BaselineModel._splitloc_to_segmentation
RECURSIVE SplitlocToSegmentationFrom(_, _, _, _)
SplitlocToSegmentationFrom(compound, splitloc, i, startpos) ==
  IF i > Len(splitloc)
  THEN <<Slice(compound, IF Len(splitloc) = 0 THEN 0 ELSE splitloc[Len(splitloc)],
               Len(compound))>>
  ELSE <<Slice(compound, startpos, splitloc[i])>>
       \o SplitlocToSegmentationFrom(compound, splitloc, i + 1, splitloc[i])

SplitlocToSegmentation(compound, splitloc) ==
  SplitlocToSegmentationFrom(compound, splitloc, 1, 0)

\* BaselineModel._modify_construction_count
RECURSIVE ModifyConstructionCount(_, _, _)
RECURSIVE ModifyChildren(_, _, _, _)

\* (variant) the loop that gives dcount to the first child only
ModifyChildrenFirst(M, children, i, dcount) ==
  IF i > 1 \/ M.err # "" THEN M
  ELSE ModifyChildren(ModifyConstructionCount(M, children[i], dcount),
                      children, i + 1, dcount)

\* the loop over the children of a virtual construction, from child i on
ModifyChildren(M, children, i, dcount) ==
  IF i > Len(children) \/ M.err # "" THEN M
  ELSE ModifyChildren(ModifyConstructionCount(M, children[i], dcount),
                      children, i + 1, dcount)

\* (variant) a count change that the corpus accumulator follows only when
\* the construction stays in the store
ModifyRealKeepsTokens(M, construction, count, newcount) ==
  LET corpus == IF newcount = 0 THEN M.corpus
                ELSE UpdateCount(M.corpus, count, newcount)
      lexicon == IF count = 0 /\ newcount > 0
                 THEN LexiconAdd(M.lexicon, construction)
                 ELSE IF count > 0 /\ newcount = 0
                 THEN LexiconRemove(M.lexicon, construction)
                 ELSE M.lexicon
  IN [M EXCEPT !.corpus = corpus, !.lexicon = lexicon]

\* a real construction's count goes old -> new: the accumulators follow
ModifyReal(M, construction, count, newcount) ==
  LET corpus == UpdateCount(M.corpus, count, newcount)
      lexicon == IF count = 0 /\ newcount > 0
                 THEN LexiconAdd(M.lexicon, construction)
                 ELSE IF count > 0 /\ newcount = 0
                 THEN LexiconRemove(M.lexicon, construction)
                 ELSE M.lexicon
  IN [M EXCEPT !.corpus = corpus, !.lexicon = lexicon]

\* (variant) the node stored whatever its new count
StoreNodeKeepZero(M, construction, node, newcount) ==
  [M EXCEPT !.analyses = Put(@, construction,
                             ConstrNode(node.rcount, newcount, node.splitloc))]

\* the node after the count change: deleted at 0, stored otherwise
StoreNode(M, construction, node, newcount) ==
  IF newcount = 0
  THEN IF construction \in DOMAIN M.analyses
       THEN [M EXCEPT !.analyses = Del(@, construction)]
       ELSE Raise(M, "KeyError")
  ELSE [M EXCEPT !.analyses = Put(@, construction,
                                  ConstrNode(node.rcount, newcount,
                                             node.splitloc))]

\* _modify_construction_count once the node is stored or deleted (M1)
ModifyStored(M1, construction, node, newcount, dcount) ==
  IF M1.err # "" THEN M1
  ELSE IF Len(node.splitloc) > 0
  THEN ModifyChildren(M1,
                      SplitlocToSegmentation(construction, node.splitloc),
                      1, dcount)
  ELSE ModifyReal(M1, construction, node.count, newcount)

\* _modify_construction_count once the node (rcount, count, splitloc) is read
ModifyNode(M, construction, node, dcount) ==
  ModifyStored(StoreNode(M, construction, node, node.count + dcount),
               construction, node, node.count + dcount, dcount)

ModifyConstructionCount(M, construction, dcount) ==
  IF M.err # "" THEN M
  ELSE ModifyNode(M, construction,
                  IF construction \in DOMAIN M.analyses
                  THEN M.analyses[construction]
                  ELSE ConstrNode(0, 0, <<>>),
                  dcount)

\* (variant) _add_compound that leaves rcount as it was
AddCompoundNoRcount(M, compound, c) ==
  ModifyConstructionCount([M EXCEPT !.corpus.boundaries = @ + c], compound, c)

\* _add_compound after the count change (M2): rcount goes up by c
AddRcount(M2, compound, c) ==
  IF M2.err # "" THEN M2
  ELSE IF compound \notin DOMAIN M2.analyses THEN Raise(M2, "KeyError")
  ELSE [M2 EXCEPT !.analyses[compound].rcount = @ + c]

\* BaselineModel._add_compound
AddCompound(M, compound, c) ==
  AddRcount(ModifyConstructionCount([M EXCEPT !.corpus.boundaries = @ + c],
                                    compound, c),
            compound, c)

\* BaselineModel._remove: the model after the call; the call returns
\* (rcount, count) of the node as it was in M
Remove(M, construction) ==
  IF M.err # "" THEN M
  ELSE IF construction \notin DOMAIN M.analyses THEN Raise(M, "KeyError")
  ELSE ModifyConstructionCount(M, construction,
                               0 - M.analyses[construction].count)

\* BaselineModel._expand_construction raises KeyError at a construction
\* that has no node
RECURSIVE ExpandDefined(_, _)
ExpandDefined(M, construction) ==
  /\ construction \in DOMAIN M.analyses
  /\ LET splitloc == M.analyses[construction].splitloc
     IN Len(splitloc) > 0 =>
          \A child \in
               {SplitlocToSegmentation(construction, splitloc)[k] :
                  k \in 1..(Len(splitloc) + 1)} :
             /\ Len(child) < Len(construction)
             /\ ExpandDefined(M, child)

\* BaselineModel._expand_construction
RECURSIVE ExpandConstruction(_, _)
RECURSIVE ExpandChildren(_, _, _)
ExpandChildren(M, children, i) ==
  IF i > Len(children) THEN <<>>
  ELSE ExpandConstruction(M, children[i]) \o ExpandChildren(M, children, i + 1)

ExpandConstruction(M, construction) ==
  LET splitloc == M.analyses[construction].splitloc
  IN IF Len(splitloc) > 0
     THEN ExpandChildren(M, SplitlocToSegmentation(construction, splitloc), 1)
     ELSE <<construction>>

\* reduce(lambda x, y: x + y, parts[p:]) and "".join(parts)
RECURSIVE Concat(_, _)
Concat(parts, p) ==
  IF p > Len(parts) THEN <<>> ELSE parts[p] \o Concat(parts, p + 1)

\* the 'rbranch' loop of _set_compound_analysis, from part p on
RECURSIVE SetRBranch(_, _, _, _)

\* one pass of the 'rbranch' loop after _remove(construction) (M1), which
\* returned (rcount, count)
SetRBranchRemoved(M1, construction, parts, p, rcount, count) ==
  IF M1.err # "" THEN M1
  ELSE IF p = Len(parts)
  THEN ModifyConstructionCount(
         [M1 EXCEPT !.analyses = Put(@, construction,
                                     ConstrNode(rcount, 0, <<>>))],
         construction, count)
  ELSE SetRBranch(
         ModifyConstructionCount(
           ModifyConstructionCount(
             [M1 EXCEPT !.analyses =
                Put(@, construction,
                    ConstrNode(rcount, count, <<Len(parts[p])>>))],
             parts[p], count),
           Concat(parts, p + 1), count),
         Concat(parts, p + 1), parts, p + 1)

SetRBranch(M, construction, parts, p) ==
  IF p > Len(parts) \/ M.err # "" THEN M
  ELSE IF construction \notin DOMAIN M.analyses THEN Raise(M, "KeyError")
  ELSE SetRBranchRemoved(Remove(M, construction), construction, parts, p,
                         M.analyses[construction].rcount,
                         M.analyses[construction].count)

\* (variant) the 'flat' loop that leaves the last part out
RECURSIVE ModifyPartsButLast(_, _, _, _)
ModifyPartsButLast(M, parts, i, count) ==
  IF i >= Len(parts) \/ M.err # "" THEN M
  ELSE ModifyPartsButLast(ModifyConstructionCount(M, parts[i], count),
                          parts, i + 1, count)

\* the 'flat' loop of _set_compound_analysis over the parts, from part i on
RECURSIVE ModifyParts(_, _, _, _)
ModifyParts(M, parts, i, count) ==
  IF i > Len(parts) \/ M.err # "" THEN M
  ELSE ModifyParts(ModifyConstructionCount(M, parts[i], count),
                   parts, i + 1, count)

\* the 'flat' branches of _set_compound_analysis after _remove(compound)
\* (M1), which returned (rcount, count)
SetFlatRemoved(M1, compound, parts, rcount, count) ==
  IF M1.err # "" THEN M1
  ELSE IF Len(parts) = 1
  THEN ModifyConstructionCount(
         [M1 EXCEPT !.analyses = Put(@, compound,
                                     ConstrNode(rcount, 0, <<>>))],
         compound, count)
  ELSE ModifyParts(
         [M1 EXCEPT !.analyses =
            Put(@, compound,
                ConstrNode(rcount, count, SegmentationToSplitloc(parts)))],
         parts, 1, count)

\* BaselineModel._set_compound_analysis
SetCompoundAnalysis(M, compound, parts, ptype) ==
  IF M.err # "" THEN M
  ELSE IF Len(parts) = 1 \/ ptype = "flat"
  THEN IF compound \notin DOMAIN M.analyses THEN Raise(M, "KeyError")
       ELSE SetFlatRemoved(Remove(M, compound), compound, parts,
                           M.analyses[compound].rcount,
                           M.analyses[compound].count)
  ELSE IF ptype = "rbranch" THEN SetRBranch(M, compound, parts, 1)
  ELSE Raise(M, "Error")

\* BaselineModel.get_cost raises when an accumulator's get_cost does
GetCostDefined(M) ==
  EncodingCostDefined(M.corpus) /\ EncodingCostDefined(M.lexicon)

\* BaselineModel.get_cost (unsupervised)
GetCost(M) ==
  EncodingGetCost(M.corpus, CorpusGetTypes(M.lexicon))
  + EncodingGetCost(M.lexicon, LexiconGetTypes(M.lexicon))

(***************************************************************************)
(* Recursive optimizer (use_skips = False).  A call returns                *)
(* [M |-> the model after the call, segs |-> the returned segment list].   *)
(***************************************************************************)
Returns(M, segs) == [M |-> M, segs |-> segs]

\* the loop of BaselineModel._force_split, at 0-based position i, with j
RECURSIVE ForceSplitFrom(_, _, _, _, _)
ForceSplitFrom(M, compound, i, j, parts) ==
  IF i >= Len(compound)
  THEN IF j < Len(compound)
       THEN Append(parts, Slice(compound, j, Len(compound)))
       ELSE parts
  ELSE IF \E k \in 1..Len(M.forcesplit_list) :
             M.forcesplit_list[k] = compound[i + 1]
  THEN ForceSplitFrom(M, compound, i + 1, i + 1,
                      parts \o <<Slice(compound, j, i),
                                 Slice(compound, i, i + 1)>>)
  ELSE ForceSplitFrom(M, compound, i + 1, j, parts)

\* BaselineModel._force_split
ForceSplit(M, compound) ==
  IF Len(M.forcesplit_list) = 0 THEN <<compound>>
  ELSE ForceSplitFrom(M, compound, 1, 0, <<>>)

\* (variant) the test that adopts a split position only below mincost
AdoptsSplitStrict(cost, mincost) == cost < mincost

\* cost <= mincost, the test that adopts split position i
AdoptsSplit(cost, mincost) == cost <= mincost

\* the loop of _recursive_split over the binary splits, from position i on:
\* [M, mincost, splitloc] when the loop ends
RECURSIVE SplitLoop(_, _, _, _, _, _)

\* (variant) the end of one pass that adopts position i only if its cost
\* is below the cost of the construction as one unit and not above mincost
SplitLoopAdoptBelow(M4, construction, count, i, cost, mincost, splitloc) ==
  IF cost <= mincost /\ (splitloc # <<>> \/ cost < mincost)
  THEN SplitLoop(M4, construction, count, i + 1, cost, <<i>>)
  ELSE SplitLoop(M4, construction, count, i + 1, mincost, splitloc)

\* the end of one pass: the trial split is undone (M4), position i is
\* adopted if its cost is not above mincost
SplitLoopAdopt(M4, construction, count, i, cost, mincost, splitloc) ==
  IF AdoptsSplit(cost, mincost)
  THEN SplitLoop(M4, construction, count, i + 1, cost, <<i>>)
  ELSE SplitLoop(M4, construction, count, i + 1, mincost, splitloc)

\* (variant) one pass that takes the prefix of the trial split out of the
\* store again and leaves the suffix in
SplitLoopTriedHalfUndone(M2, construction, count, i, mincost, splitloc) ==
  IF M2.err # ""
  THEN [M |-> M2, mincost |-> mincost, splitloc |-> splitloc]
  ELSE IF ~GetCostDefined(M2)
  THEN [M |-> Raise(M2, "ValueError"), mincost |-> mincost,
        splitloc |-> splitloc]
  ELSE SplitLoopAdopt(
         ModifyConstructionCount(M2, Slice(construction, 0, i), 0 - count),
         construction, count, i, GetCost(M2), mincost, splitloc)

\* one pass with the trial split at i in the store (M2)
SplitLoopTried(M2, construction, count, i, mincost, splitloc) ==
  IF M2.err # ""
  THEN [M |-> M2, mincost |-> mincost, splitloc |-> splitloc]
  ELSE IF ~GetCostDefined(M2)
  THEN [M |-> Raise(M2, "ValueError"), mincost |-> mincost,
        splitloc |-> splitloc]
  ELSE SplitLoopAdopt(
         ModifyConstructionCount(
           ModifyConstructionCount(M2, Slice(construction, 0, i), 0 - count),
           Slice(construction, i, Len(construction)), 0 - count),
         construction, count, i, GetCost(M2), mincost, splitloc)

SplitLoop(M, construction, count, i, mincost, splitloc) ==
  IF i >= Len(construction) \/ M.err # ""
  THEN [M |-> M, mincost |-> mincost, splitloc |-> splitloc]
  ELSE SplitLoopTried(
         ModifyConstructionCount(
           ModifyConstructionCount(M, Slice(construction, 0, i), count),
           Slice(construction, i, Len(construction)), count),
         construction, count, i, mincost, splitloc)

\* BaselineModel._recursive_split
RECURSIVE RecursiveSplit(_, _)

\* lp + self._recursive_split(suffix), rs being what that call returns
JoinReturns(segs, rs) == Returns(rs.M, segs \o rs.segs)

\* the return of the virtual branch, lp being what _recursive_split(prefix)
\* returned
RecursiveSplitSuffix(lp, prefix, suffix) ==
  IF suffix # prefix
  THEN JoinReturns(lp.segs, RecursiveSplit(lp.M, suffix))
  ELSE Returns(lp.M, lp.segs \o lp.segs)

\* the virtual branch: the construction is stored split at splitloc (M4)
RecursiveSplitVirtual(M4, prefix, suffix, count) ==
  RecursiveSplitSuffix(
    RecursiveSplit(
      ModifyConstructionCount(ModifyConstructionCount(M4, prefix, count),
                              suffix, count),
      prefix),
    prefix, suffix)

\* (variant) the node is stored again without its root count
RecursiveSplitDecideNoRcount(loop, construction, rcount, count) ==
  IF loop.M.err # "" THEN Returns(loop.M, <<>>)
  ELSE IF Len(loop.splitloc) > 0
  THEN RecursiveSplitVirtual(
         [loop.M EXCEPT !.analyses =
            Put(@, construction, ConstrNode(0, count, loop.splitloc))],
         Slice(construction, 0, loop.splitloc[1]),
         Slice(construction, loop.splitloc[1], Len(construction)),
         count)
  ELSE Returns(ModifyConstructionCount(
                 [loop.M EXCEPT !.analyses =
                    Put(@, construction, ConstrNode(0, 0, <<>>))],
                 construction, count),
               <<construction>>)

\* after the loop over the binary splits, which ended in loop
RecursiveSplitDecide(loop, construction, rcount, count) ==
  IF loop.M.err # "" THEN Returns(loop.M, <<>>)
  ELSE IF Len(loop.splitloc) > 0
  THEN RecursiveSplitVirtual(
         [loop.M EXCEPT !.analyses =
            Put(@, construction, ConstrNode(rcount, count, loop.splitloc))],
         Slice(construction, 0, loop.splitloc[1]),
         Slice(construction, loop.splitloc[1], Len(construction)),
         count)
  ELSE Returns(ModifyConstructionCount(
                 [loop.M EXCEPT !.analyses =
                    Put(@, construction, ConstrNode(rcount, 0, <<>>))],
                 construction, count),
               <<construction>>)

\* with the construction back in the store unsplit (M2): mincost is the
\* cost of M2, the construction is taken out again and the loop runs
RecursiveSplitWhole(M2, construction, rcount, count) ==
  IF M2.err # "" THEN Returns(M2, <<>>)
  ELSE IF ~GetCostDefined(M2) THEN Returns(Raise(M2, "ValueError"), <<>>)
  ELSE RecursiveSplitDecide(
         SplitLoop(ModifyConstructionCount(M2, construction, 0 - count),
                   construction, count, 1, GetCost(M2), <<>>),
         construction, rcount, count)

\* after _remove(construction) (M1), which returned (rcount, count)
RecursiveSplitRemoved(M1, construction, rcount, count) ==
  RecursiveSplitWhole(ModifyConstructionCount(M1, construction, count),
                      construction, rcount, count)

RecursiveSplit(M, construction) ==
  IF M.err # "" THEN Returns(M, <<>>)
  ELSE IF Len(construction) = 1 THEN Returns(M, <<construction>>)
  ELSE IF construction \notin DOMAIN M.analyses
  THEN Returns(Raise(M, "KeyError"), <<>>)
  ELSE RecursiveSplitRemoved(Remove(M, construction), construction,
                             M.analyses[construction].rcount,
                             M.analyses[construction].count)

\* the trial split of one pass of the loop of _recursive_split: count goes
\* to the prefix and the suffix at position i
TrialSplit(M, construction, count, i) ==
  ModifyConstructionCount(
    ModifyConstructionCount(M, Slice(construction, 0, i), count),
    Slice(construction, i, Len(construction)), count)

\* the store in which pass i of the loop starts, M being the store in
\* which the loop starts: every earlier trial split was made and undone
RECURSIVE ScanStore(_, _, _, _)
ScanStore(M, construction, count, i) ==
  IF i = 1 THEN M
  ELSE TrialSplit(
         TrialSplit(ScanStore(M, construction, count, i - 1),
                    construction, count, i - 1),
         construction, 0 - count, i - 1)

\* the costs _recursive_split measures once the construction is back in
\* the store unsplit (M2): mincost before the loop, then cost of each pass
ScanCostsWhole(M2, construction, count) ==
  <<GetCost(M2)>>
  \o [i \in 1..(Len(construction) - 1) |->
        GetCost(TrialSplit(
                  ScanStore(ModifyConstructionCount(M2, construction,
                                                    0 - count),
                            construction, count, i),
                  construction, count, i))]

\* the costs _recursive_split(construction) measures, none for one atom
ScanCosts(M, construction) ==
  IF Len(construction) = 1 THEN <<>>
  ELSE ScanCostsWhole(
         ModifyConstructionCount(Remove(M, construction), construction,
                                 M.analyses[construction].count),
         construction, M.analyses[construction].count)

\* the loop of _recursive_optimize over the forced parts, from part i on
RECURSIVE RecursiveSplitParts(_, _, _, _)

\* constructions += r, r being what _recursive_split(parts[i]) returned
RecursiveSplitPartsNext(r, parts, i, constructions) ==
  RecursiveSplitParts(r.M, parts, i + 1, constructions \o r.segs)

RecursiveSplitParts(M, parts, i, constructions) ==
  IF i > Len(parts) \/ M.err # "" THEN Returns(M, constructions)
  ELSE RecursiveSplitPartsNext(RecursiveSplit(M, parts[i]), parts, i,
                               constructions)

\* _recursive_optimize once the forced parts are known
RecursiveOptimizeParts(M, compound, parts) ==
  IF Len(parts) = 1 THEN RecursiveSplit(M, compound)
  ELSE RecursiveSplitParts(SetCompoundAnalysis(M, compound, parts, "flat"),
                           parts, 1, <<>>)

\* BaselineModel._recursive_optimize
RecursiveOptimize(M, compound) ==
  IF Len(compound) = 1 THEN Returns(M, <<compound>>)
  ELSE RecursiveOptimizeParts(M, compound, ForceSplit(M, compound))

(***************************************************************************)
(* Viterbi segmentation.  addcount is a non-negative integer; costs are    *)
(* fixed-point.  A grid entry is [has |-> a cost is stored, cost, path],   *)
(* path = -1 standing for None.                                            *)
(***************************************************************************)
\* LexiconEncoding.get_codelength raises ValueError at log(0)
RECURSIVE AtomLogsDefined(_, _, _)
AtomLogsDefined(lex, construction, i) ==
  i > Len(construction)
  \/ (/\ (construction[i] \in DOMAIN lex.atoms
            => LogDefined(lex.atoms[construction[i]]))
      /\ AtomLogsDefined(lex, construction, i + 1))

CodelengthDefined(lex, construction) ==
  /\ LogDefined(lex.tokens + Len(construction) + 1)
  /\ LogDefined(lex.boundaries)
  /\ AtomLogsDefined(lex, construction, 1)

\* the sum of math.log(c) over the atoms in get_codelength
RECURSIVE AtomLogs(_, _, _)
AtomLogs(lex, construction, i) ==
  IF i > Len(construction) THEN 0
  ELSE Log(IF construction[i] \in DOMAIN lex.atoms
           THEN lex.atoms[construction[i]] ELSE 1)
       + AtomLogs(lex, construction, i + 1)

\* LexiconEncoding.get_codelength
GetCodelength(lex, construction) ==
  LET l == Len(construction) + 1
  IN l * Log(lex.tokens + l) - Log(lex.boundaries)
     - AtomLogs(lex, construction, 1)

\* logtokens of viterbi_segment
LogTokens(M, addcount) ==
  IF M.corpus.tokens + addcount > 0 THEN Log(M.corpus.tokens + addcount)
  ELSE 0

\* is the construction a real construction of the store
IsReal(M, construction) ==
  /\ construction \in DOMAIN M.analyses
  /\ Len(M.analyses[construction].splitloc) = 0

\* the cost of a construction that is not real, with additive smoothing
NovelCost(M, construction, addcount, logtokens, lb) ==
  IF M.corpus.tokens = 0
  THEN IF CodelengthDefined(M.lexicon, construction)
       THEN [kind |-> "cost",
             val |-> OverWeight(
                       addcount * Log(addcount)
                       + GetCodelength(M.lexicon, construction),
                       M.corpus.weight)]
       ELSE [kind |-> "raise", val |-> 0]
  ELSE IF LogDefined(lb) /\ CodelengthDefined(M.lexicon, construction)
       THEN [kind |-> "cost",
             val |-> OverWeight(
                       logtokens - Log(addcount)
                       + (lb + addcount) * Log(lb + addcount)
                       - lb * Log(lb)
                       + GetCodelength(M.lexicon, construction),
                       M.corpus.weight)]
       ELSE [kind |-> "raise", val |-> 0]

\* (variant) without smoothing a span of any length that is no real
\* construction is priced as a single atom is
EdgeCostWithAnySpan(M, compound, construction, addcount, logtokens) ==
  IF IsReal(M, construction)
  THEN IF M.analyses[construction].count <= 0
       THEN [kind |-> "raise", val |-> 0]
       ELSE [kind |-> "cost",
             val |-> logtokens
                     - Log(M.analyses[construction].count + addcount)]
  ELSE IF addcount > 0
  THEN NovelCost(M, construction, addcount, logtokens, M.lexicon.boundaries)
  ELSE [kind |-> "cost", val |-> Len(compound) * logtokens + LogScale]

\* the span cost given logtokens
EdgeCostWith(M, compound, construction, addcount, logtokens) ==
  IF IsReal(M, construction)
  THEN IF M.analyses[construction].count <= 0
       THEN [kind |-> "raise", val |-> 0]
       ELSE [kind |-> "cost",
             val |-> logtokens
                     - Log(M.analyses[construction].count + addcount)]
  ELSE IF addcount > 0
  THEN NovelCost(M, construction, addcount, logtokens, M.lexicon.boundaries)
  ELSE IF Len(construction) = 1
  THEN [kind |-> "cost", val |-> Len(compound) * logtokens + LogScale]
  ELSE [kind |-> "skip", val |-> 0]

\* the cost viterbi_segment adds for the span compound[pt:t]:
\* kind "cost" (val is added), "skip" (continue) or "raise"
EdgeCost(M, compound, construction, addcount) ==
  EdgeCostWith(M, compound, construction, addcount, LogTokens(M, addcount))

NoBest == [has |-> FALSE, cost |-> 0, path |-> -1, raised |-> FALSE]

\* the inner loop of viterbi_segment: the best predecessor of t among
\* pt, pt + 1, ..., t - 1, given the best so far
RECURSIVE BestPath(_, _, _, _, _, _, _)

\* one pass of the inner loop, edge being the cost of the span compound[pt:t]
BestPathEdge(M, compound, addcount, grid, t, pt, best, edge) ==
  IF edge.kind = "raise" THEN [best EXCEPT !.raised = TRUE]
  ELSE IF edge.kind = "skip"
  THEN BestPath(M, compound, addcount, grid, t, pt + 1, best)
  ELSE IF ~best.has \/ grid[pt + 1].cost + edge.val < best.cost
  THEN BestPath(M, compound, addcount, grid, t, pt + 1,
                [has |-> TRUE, cost |-> grid[pt + 1].cost + edge.val,
                 path |-> pt, raised |-> FALSE])
  ELSE BestPath(M, compound, addcount, grid, t, pt + 1, best)

BestPath(M, compound, addcount, grid, t, pt, best) ==
  IF pt >= t \/ best.raised THEN best
  ELSE IF ~grid[pt + 1].has
  THEN BestPath(M, compound, addcount, grid, t, pt + 1, best)
  ELSE BestPathEdge(M, compound, addcount, grid, t, pt, best,
                    EdgeCost(M, compound, Slice(compound, pt, t), addcount))

\* the main loop of viterbi_segment: the grid after positions t..clen;
\* grid[k + 1] is the code's grid[k]
RECURSIVE ViterbiGrid(_, _, _, _, _, _)

\* grid[t] = best, and on to t + 1 unless the inner loop raised
ViterbiGridNext(M, compound, addcount, maxlen, t, grid, best) ==
  IF best.raised THEN Append(grid, best)
  ELSE ViterbiGrid(M, compound, addcount, maxlen, t + 1, Append(grid, best))

ViterbiGrid(M, compound, addcount, maxlen, t, grid) ==
  IF t > Len(compound) THEN grid
  ELSE ViterbiGridNext(M, compound, addcount, maxlen, t, grid,
                       BestPath(M, compound, addcount, grid, t,
                                Max(0, t - maxlen), NoBest))

\* the backtracking loop of viterbi_segment: the segments in reverse order
RECURSIVE Backtrack(_, _, _, _)
Backtrack(compound, grid, path, lt) ==
  IF path = -1 THEN <<>>
  ELSE <<Slice(compound, path, lt)>>
       \o Backtrack(compound, grid, grid[path + 1].path, path)

\* (variant) the segments left in backtracking order
Unreversed(s) == s

\* list.reverse()
RECURSIVE Reverse(_)
Reverse(s) ==
  IF Len(s) = 0 THEN <<>> ELSE Append(Reverse(Tail(s)), Head(s))

\* the end of viterbi_segment: the path is read back from the grid
ViterbiResult(compound, grid, last) ==
  IF last.raised
  THEN [constructions |-> <<>>, cost |-> 0, raised |-> TRUE]
  ELSE [constructions |->
          Reverse(Backtrack(compound, grid, last.path, Len(compound) + 1)),
        cost |-> last.cost, raised |-> FALSE]

ViterbiRead(compound, grid) == ViterbiResult(compound, grid, grid[Len(grid)])

\* BaselineModel.viterbi_segment:
\* [constructions, cost, raised |-> the call raised instead of returning]
ViterbiSegment(M, compound, addcount, maxlen) ==
  ViterbiRead(compound,
              ViterbiGrid(M, compound, addcount, maxlen, 1,
                          <<[has |-> TRUE, cost |-> 0, path |-> -1,
                             raised |-> FALSE]>>))

\* the loop of _viterbi_optimize over the forced parts, from part i on
RECURSIVE ViterbiParts(_, _, _, _, _)

\* constructions += seg, seg being what viterbi_segment(parts[i]) returned
ViterbiPartsJoin(seg, rest) ==
  [constructions |-> seg.constructions \o rest.constructions,
   raised |-> seg.raised \/ rest.raised]

ViterbiParts(M, parts, i, addcount, maxlen) ==
  IF i > Len(parts) THEN [constructions |-> <<>>, raised |-> FALSE]
  ELSE ViterbiPartsJoin(ViterbiSegment(M, parts[i], addcount, maxlen),
                        ViterbiParts(M, parts, i + 1, addcount, maxlen))

\* the end of _viterbi_optimize: the analysis found is stored
ViterbiStore(M, compound, vit) ==
  IF vit.raised THEN Returns(Raise(M, "ValueError"), <<>>)
  ELSE Returns(SetCompoundAnalysis(M, compound, vit.constructions, "flat"),
               vit.constructions)

\* BaselineModel._viterbi_optimize
ViterbiOptimize(M, compound, addcount, maxlen) ==
  IF Len(compound) = 1 THEN Returns(M, <<compound>>)
  ELSE ViterbiStore(M, compound,
                    ViterbiParts(M, ForceSplit(M, compound), 1, addcount,
                                 maxlen))

(***************************************************************************)
(* Training loops.  algorithm is [name, params]: the algorithm and          *)
(* algorithm_params arguments.  finish_threshold is a fraction [num, den].  *)
(***************************************************************************)
\* the optimizer call of one training step
Optimize(M, algorithm, w) ==
  IF algorithm.name = "recursive" THEN RecursiveOptimize(M, w)
  ELSE IF algorithm.name = "viterbi"
  THEN ViterbiOptimize(M, w, algorithm.params[1], algorithm.params[2])
  ELSE Returns(Raise(M, "Error"), <<>>)

\* the for loop of one epoch of train_batch over the shuffled compounds,
\* from position i on
RECURSIVE EpochFrom(_, _, _, _)
EpochFrom(M, algorithm, compounds, i) ==
  IF i > Len(compounds) \/ M.err # "" THEN M
  ELSE EpochFrom(Optimize(M, algorithm, compounds[i]).M, algorithm,
                 compounds, i + 1)

\* random.shuffle(compounds): every order of the compounds
Orders(S) ==
  {s \in [1..Cardinality(S) -> S] :
     \A i, j \in 1..Cardinality(S) : s[i] = s[j] => i = j}

\* (variant) the test with no forced epochs
StopsUnforced(forced_epochs, oldcost, newcost, finish_threshold, boundaries) ==
  newcost * finish_threshold.den
    >= oldcost * finish_threshold.den
       - finish_threshold.num * boundaries * LogScale

\* (variant) the test with > for >=
StopsAbove(forced_epochs, oldcost, newcost, finish_threshold, boundaries) ==
  /\ forced_epochs = 0
  /\ newcost * finish_threshold.den
       > oldcost * finish_threshold.den
         - finish_threshold.num * boundaries * LogScale

\* forced_epochs == 0 and
\* newcost >= oldcost - finish_threshold * self.corpus_coding.boundaries
Stops(forced_epochs, oldcost, newcost, finish_threshold, boundaries) ==
  /\ forced_epochs = 0
  /\ newcost * finish_threshold.den
       >= oldcost * finish_threshold.den
          - finish_threshold.num * boundaries * LogScale

\* the locals of train_batch after the stop test of an epoch: the loop is
\* left, or forced_epochs goes down
EpochTested(f, boundaries) ==
  IF Stops(f.forced_epochs, f.oldcost, f.newcost, f.finish_threshold,
           boundaries)
  THEN [f EXCEPT !.pc = "returned"]
  ELSE [f EXCEPT !.forced_epochs = IF @ > 0 THEN @ - 1 ELSE @]

\* the locals of train_batch after an epoch whose for loop left the model M
EpochEnd(f, M) ==
  IF M.err # "" THEN [f EXCEPT !.pc = "raised"]
  ELSE EpochTested([f EXCEPT !.epochs = @ + 1,
                             !.oldcost = f.newcost,
                             !.newcost = GetCost(M)],
                   M.corpus.boundaries)

\* the dampening functions main() passes as count_modifier: 'none' is
\* lambda x: x, 'log' is int(round(math.log(x + 1, 2))), 'ones' is 1;
\* "double" is the caller's function lambda x: 2 * x
LogDampTable == <<1, 2, 2, 2, 3, 3, 3, 3>>

CountModifier(count_modifier, x) ==
  IF count_modifier = "identity" THEN x
  ELSE IF count_modifier = "log" THEN (IF x = 0 THEN 0 ELSE LogDampTable[x])
  ELSE IF count_modifier = "double" THEN 2 * x
  ELSE 1

\* (variant) addc is 1 for every item
OnlineAddCountPlain(f, w) == 1

\* addc of train_online for the stream item w; count_modifier "None" is the
\* default argument
OnlineAddCount(f, w) ==
  IF f.count_modifier = "None" THEN 1
  ELSE IF w \notin DOMAIN f.counts THEN 1
  ELSE CountModifier(f.count_modifier, f.counts[w] + 1)
       - CountModifier(f.count_modifier, f.counts[w])

\* the model after train_online added the stream item w, if it did
OnlineAdded(M, f, w) ==
  IF OnlineAddCount(f, w) > 0 THEN AddCompound(M, w, OnlineAddCount(f, w))
  ELSE M

\* counts after the stream item w
OnlineCounts(f, w) ==
  IF f.count_modifier = "None" THEN f.counts
  ELSE Put(f.counts, w, CounterGet(f.counts, w) + 1)

\* (variant) the locals after an item, with no epoch counted at the end of
\* a full window
OnlineItemLocalsOneWindow(f, w, M2) ==
  IF M2.err # ""
  THEN [f EXCEPT !.pc = "raised", !.data = Tail(@),
                 !.counts = OnlineCounts(f, w)]
  ELSE [f EXCEPT !.data = Tail(@),
                 !.counts = OnlineCounts(f, w),
                 !.i = @ + 1,
                 !.j = IF f.j + 1 = f.epoch_interval THEN 0 ELSE f.j + 1]

\* the locals of train_online after the stream item w, M2 being the model
\* the optimizer left: the item is counted, and a window of epoch_interval
\* items ends the epoch
OnlineItemLocals(f, w, M2) ==
  IF M2.err # ""
  THEN [f EXCEPT !.pc = "raised", !.data = Tail(@),
                 !.counts = OnlineCounts(f, w)]
  ELSE [f EXCEPT !.data = Tail(@),
                 !.counts = OnlineCounts(f, w),
                 !.i = @ + 1,
                 !.j = IF f.j + 1 = f.epoch_interval THEN 0 ELSE f.j + 1,
                 !.epochs = IF f.j + 1 = f.epoch_interval THEN @ + 1 ELSE @]

\* the entries train_online adds to the log for the stream item w
OnlineLogged(f, w) ==
  (IF OnlineAddCount(f, w) > 0
   THEN <<[op |-> "add", compound |-> w, count |-> OnlineAddCount(f, w)]>>
   ELSE <<>>)
  \o <<[op |-> "optimize", compound |-> w, count |-> 0]>>

(***************************************************************************)
(* Loading and listing segmentations.  An entry of the list given to       *)
(* load_segmentations is [count, segmentation].                            *)
(***************************************************************************)
\* (variant) an entry loaded without its analysis
LoadEntryUnsplit(M, entry) ==
  AddCompound(M, Concat(entry.segmentation, 1), entry.count)

\* (variant) an entry loaded as a right-branching tree
LoadEntryRBranch(M, entry) ==
  SetCompoundAnalysis(
    AddCompound(M, Concat(entry.segmentation, 1), entry.count),
    Concat(entry.segmentation, 1), entry.segmentation, "rbranch")

\* one pass of the loop of load_segmentations
LoadEntry(M, entry) ==
  SetCompoundAnalysis(
    AddCompound(M, Concat(entry.segmentation, 1), entry.count),
    Concat(entry.segmentation, 1), entry.segmentation, "flat")

\* BaselineModel.load_segmentations, from entry i on
RECURSIVE LoadSegmentations(_, _, _)
LoadSegmentations(M, segmentations, i) ==
  IF i > Len(segmentations) \/ M.err # "" THEN M
  ELSE LoadSegmentations(LoadEntry(M, segmentations[i]), segmentations, i + 1)

\* the order of Python strings over the atoms "a" < "b"
RECURSIVE Before(_, _)
Before(u, v) ==
  IF v = <<>> THEN FALSE
  ELSE IF u = <<>> THEN TRUE
  ELSE IF u[1] # v[1] THEN u[1] = "a"
  ELSE Before(Tail(u), Tail(v))

\* sorted(self.analyses.keys())
RECURSIVE SortedKeys(_)
SortedKeys(S) ==
  IF S = {} THEN <<>>
  ELSE <<CHOOSE w \in S : \A v \in S \ {w} : Before(w, v)>>
       \o SortedKeys(S \ {CHOOSE w \in S : \A v \in S \ {w} : Before(w, v)})

\* BaselineModel.get_segmentations, from key i on: the (rcount, expansion)
\* pairs it yields
RECURSIVE GetSegmentationsFrom(_, _, _)
GetSegmentationsFrom(M, keys, i) ==
  IF i > Len(keys) THEN <<>>
  ELSE (IF M.analyses[keys[i]].rcount > 0
        THEN <<<<M.analyses[keys[i]].rcount,
                 ExpandConstruction(M, keys[i])>>>>
        ELSE <<>>)
       \o GetSegmentationsFrom(M, keys, i + 1)

GetSegmentations(M) ==
  GetSegmentationsFrom(M, SortedKeys(DOMAIN M.analyses), 1)

\* one pass of the loop of load_data over the corpus entry [count, atoms];
\* splits is <<>> when init_rand_split is None or 0, and else holds the
\* parts _random_split returns for each entry
LoadDataEntry(M, entry, freqthreshold, cfunc, splits, i) ==
  IF entry.count < freqthreshold THEN M
  ELSE IF splits = <<>>
  THEN AddCompound(M, entry.atoms, CountModifier(cfunc, entry.count))
  ELSE SetCompoundAnalysis(
         AddCompound(M, entry.atoms, CountModifier(cfunc, entry.count)),
         entry.atoms, splits[i], "flat")

\* BaselineModel.load_data, from entry i on
RECURSIVE LoadData(_, _, _, _, _, _)
LoadData(M, corpus, freqthreshold, cfunc, splits, i) ==
  IF i > Len(corpus) \/ M.err # "" THEN M
  ELSE LoadData(LoadDataEntry(M, corpus[i], freqthreshold, cfunc, splits, i),
                corpus, freqthreshold, cfunc, splits, i + 1)

(***************************************************************************)
(* Boundary precision and recall.  A segmentation set is a sequence, one   *)
(* entry per compound, of sets of alternative segmentations.  A float of   *)
(* the evaluation is a fraction [num, den].                                *)
(***************************************************************************)
\* reduce(lambda x, y: x + [(x[-1] + len(y))], segmentation, [0])[1:-1]:
\* the internal boundary positions, from segment k on, i atoms in
RECURSIVE BoundariesFrom(_, _, _)
BoundariesFrom(segmentation, k, i) ==
  IF k >= Len(segmentation) THEN {}
  ELSE {i + Len(segmentation[k])}
       \cup BoundariesFrom(segmentation, k + 1, i + Len(segmentation[k]))

Boundaries(segmentation) == BoundariesFrom(segmentation, 1, 0)

Fraction(num, den) == [num |-> num, den |-> den]

FractionLeq(q, r) == q.num * r.den <= r.num * q.den

FractionSum(q, r) == Fraction(q.num * r.den + r.num * q.den, q.den * r.den)

\* len(ref_b.intersection(pre_b)) / float(len(ref_b))
BoundaryHits(pre, ref) ==
  Fraction(Cardinality(Boundaries(ref) \cap Boundaries(pre)),
           Cardinality(Boundaries(ref)))

\* (variant) best of one compound as the smallest share
BestRecallSmallest(pre_list, ref_list) ==
  IF ref_list = {} THEN Fraction(-1, 1)
  ELSE IF \E ref \in ref_list : Boundaries(ref) = {} THEN Fraction(1, 1)
  ELSE IF pre_list = {} THEN Fraction(-1, 1)
  ELSE CHOOSE r \in {BoundaryHits(pre, ref) :
                       pre \in pre_list, ref \in ref_list} :
         \A q \in {BoundaryHits(pre, ref) :
                     pre \in pre_list, ref \in ref_list} : FractionLeq(r, q)

\* best of one compound in _boundary_recall: 1.0 at a reference with no
\* boundary, else the largest share of a reference's boundaries that a
\* prediction has, -1 when there is nothing to compare
BestRecall(pre_list, ref_list) ==
  IF ref_list = {} THEN Fraction(-1, 1)
  ELSE IF \E ref \in ref_list : Boundaries(ref) = {} THEN Fraction(1, 1)
  ELSE IF pre_list = {} THEN Fraction(-1, 1)
  ELSE CHOOSE r \in {BoundaryHits(pre, ref) :
                       pre \in pre_list, ref \in ref_list} :
         \A q \in {BoundaryHits(pre, ref) :
                     pre \in pre_list, ref \in ref_list} : FractionLeq(q, r)

\* _boundary_recall from compound k on: [sum |-> rec_sum, total |-> rec_total]
RECURSIVE BoundaryRecallFrom(_, _, _, _)
BoundaryRecallFrom(prediction, reference, k, acc) ==
  IF k > Len(prediction) \/ k > Len(reference) THEN acc
  ELSE BoundaryRecallFrom(
         prediction, reference, k + 1,
         IF BestRecall(prediction[k], reference[k]).num >= 0
         THEN [sum |-> FractionSum(acc.sum,
                                   BestRecall(prediction[k], reference[k])),
               total |-> acc.total + 1]
         ELSE acc)

BoundaryRecall(prediction, reference) ==
  BoundaryRecallFrom(prediction, reference, 1,
                     [sum |-> Fraction(0, 1), total |-> 0])

\* _bpr_evaluation once both recalls are there: <<pre, rec, f>>, or
\* ZeroDivisionError
BprFrom(rec, pre) ==
  IF rec.total = 0 \/ pre.total = 0 THEN [raised |-> TRUE, value |-> <<>>]
  ELSE IF pre.sum.num = 0 /\ rec.sum.num = 0
  THEN [raised |-> TRUE, value |-> <<>>]
  ELSE [raised |-> FALSE,
        value |->
          <<Fraction(pre.sum.num, pre.sum.den * pre.total),
            Fraction(rec.sum.num, rec.sum.den * rec.total),
            Fraction(2 * pre.sum.num * rec.sum.num,
                     pre.sum.num * rec.sum.den * rec.total
                     + rec.sum.num * pre.sum.den * pre.total)>>]

\* _bpr_evaluation
BprEvaluation(prediction, reference) ==
  BprFrom(BoundaryRecall(prediction, reference),
          BoundaryRecall(reference, prediction))

(***************************************************************************)
(* Semi-supervised training.  annotations is the list of the pairs         *)
(* <<compound, alternatives>> of Annotations.get_data(), alternatives a    *)
(* list of analyses.  The annotated accumulator A is annot_coding with     *)
(* the model's supervised flag and annotations.                            *)
(***************************************************************************)
\* the penalty -9999.9 of BaselineModel and AnnotatedCorpusEncoding
Penalty == 0 - 99999 * (LogScale \div 10)

\* the weight None
NoWeight == [none |-> TRUE]

\* set_annotations(annotations, annotatedcorpusweight)
SetAnnotations(annotations, annotatedcorpusweight) ==
  [supervised |-> TRUE,
   annotations |-> annotations,
   do_update_weight |-> annotatedcorpusweight = NoWeight,
   weight |-> annotatedcorpusweight,
   boundaries |-> Len(annotations),
   constructions |-> <<>>,
   tokens |-> 0,
   logtokensum |-> 0]

\* the cost _best_analysis gives an analysis, from its construction k on
RECURSIVE AnalysisCost(_, _, _)
AnalysisCost(M, analysis, k) ==
  IF k > Len(analysis) THEN 0
  ELSE (IF IsReal(M, analysis[k])
        THEN Log(M.corpus.tokens) - Log(M.analyses[analysis[k]].count)
        ELSE 0 - Penalty)
       + AnalysisCost(M, analysis, k + 1)

\* _best_analysis from choice k on: the first analysis of the lowest cost
RECURSIVE BestAnalysisFrom(_, _, _, _)
BestAnalysisFrom(M, choices, k, best) ==
  IF k > Len(choices) THEN best
  ELSE BestAnalysisFrom(
         M, choices, k + 1,
         IF best = 0 \/ AnalysisCost(M, choices[k], 1)
                        < AnalysisCost(M, choices[best], 1)
         THEN k ELSE best)

BestAnalysis(M, choices) == choices[BestAnalysisFrom(M, choices, 1, 0)]

\* constructions[m] += rcount for every m of an analysis, from k on
RECURSIVE CountAnalysis(_, _, _, _)
CountAnalysis(constructions, analysis, k, rcount) ==
  IF k > Len(analysis) THEN constructions
  ELSE CountAnalysis(
         Put(constructions, analysis[k],
             CounterGet(constructions, analysis[k]) + rcount),
         analysis, k + 1, rcount)

\* the first loop of _update_annotation_choices, from annotation k on
RECURSIVE AnnotatedConstructions(_, _, _, _)
AnnotatedConstructions(M, annotations, k, constructions) ==
  IF k > Len(annotations) THEN constructions
  ELSE AnnotatedConstructions(
         M, annotations, k + 1,
         CountAnalysis(constructions, BestAnalysis(M, annotations[k][2]), 1,
                       M.analyses[annotations[k][1]].rcount))

\* self.analyses[w] of the first loop raises KeyError
AnnotatedMissing(M, annotations) ==
  \E k \in 1..Len(annotations) :
    /\ annotations[k][2] # <<>>
    /\ BestAnalysis(M, annotations[k][2]) # <<>>
    /\ annotations[k][1] \notin DOMAIN M.analyses

\* AnnotatedCorpusEncoding.update_count(construction, -1, count) on the
\* logtokensum, for the constructions of the set S
RECURSIVE AnnotatedLogTokenSum(_, _, _)
AnnotatedLogTokenSum(M, constructions, S) ==
  IF S = {} THEN 0
  ELSE (IF ~IsReal(M, CHOOSE m \in S : TRUE)
        THEN constructions[CHOOSE m \in S : TRUE] * Penalty
        ELSE IF M.analyses[CHOOSE m \in S : TRUE].count > 1
        THEN constructions[CHOOSE m \in S : TRUE]
             * Log(M.analyses[CHOOSE m \in S : TRUE].count)
        ELSE 0)
       + AnnotatedLogTokenSum(M, constructions,
                              S \ {CHOOSE m \in S : TRUE})

\* set_constructions and the second loop of _update_annotation_choices
SetConstructions(M, A, constructions) ==
  [A EXCEPT !.constructions = constructions,
            !.tokens = 0,
            !.logtokensum = AnnotatedLogTokenSum(M, constructions,
                                                 DOMAIN constructions)]

\* _update_annotation_choices
UpdateAnnotationChoices(M, A) ==
  SetConstructions(M, A, AnnotatedConstructions(M, A.annotations, 1, <<>>))

\* AnnotatedCorpusEncoding.update_weight: self.types is no attribute of the
\* accumulator
UpdateWeight(M, A) ==
  IF ~A.do_update_weight THEN [A |-> A, err |-> ""]
  ELSE [A |-> A, err |-> "AttributeError"]

\* _epoch_update, the part for semi-supervised learning
EpochUpdate(M, A) ==
  IF ~A.supervised THEN [A |-> A, err |-> ""]
  ELSE IF AnnotatedMissing(M, A.annotations)
  THEN [A |-> A, err |-> "KeyError"]
  ELSE UpdateWeight(M, UpdateAnnotationChoices(M, A))

\* get_cost of the annotated accumulator: the weight None cannot be
\* multiplied, and get_types reads the boundaries of the weight that was
\* passed as the lexicon encoding
AnnotatedGetCostError(A) ==
  IF A.boundaries = 0 THEN ""
  ELSE IF A.weight = NoWeight THEN "TypeError"
  ELSE "AttributeError"

\* BaselineModel.get_cost: [cost, err]
ModelGetCost(M, A) ==
  IF ~GetCostDefined(M) THEN [cost |-> <<>>, err |-> "ValueError"]
  ELSE IF ~A.supervised THEN [cost |-> <<GetCost(M)>>, err |-> ""]
  ELSE IF AnnotatedGetCostError(A) # ""
  THEN [cost |-> <<>>, err |-> AnnotatedGetCostError(A)]
  ELSE [cost |-> <<GetCost(M)>>, err |-> ""]

(***************************************************************************)
(* State                                                                   *)
(***************************************************************************)
VARIABLES
  analyses,         \* BaselineModel.analyses
  corpus_coding,    \* BaselineModel.corpus_coding
  lexicon_coding,   \* BaselineModel.lexicon_coding
  forcesplit_list,  \* BaselineModel.forcesplit_list
  err,              \* the exception that ended the last call, "" if none
  ret,              \* the last call: its name, its arguments, what it returned
  annot_coding,     \* BaselineModel.supervised, annotations and annot_coding
  frame,            \* the local variables of the training call that is running
  log,              \* the calls made so far that the properties speak of
  use_skips,        \* BaselineModel.use_skips
  counter           \* BaselineModel.counter

vars ==
  <<analyses, corpus_coding, lexicon_coding, forcesplit_list, err, ret,
    annot_coding, frame, log, use_skips, counter>>

\* the BaselineModel instance in the current state
Self ==
  [analyses |-> analyses,
   corpus   |-> corpus_coding,
   lexicon  |-> lexicon_coding,
   forcesplit_list |-> forcesplit_list,
   err      |-> err]

\* the instance after a call
Commit(M) ==
  /\ analyses' = M.analyses
  /\ corpus_coding' = M.corpus
  /\ lexicon_coding' = M.lexicon
  /\ forcesplit_list' = M.forcesplit_list
  /\ err' = M.err

\* BaselineModel._get_compounds
GetCompounds(M) == {w \in DOMAIN M.analyses : M.analyses[w].rcount > 0}

\* the forcesplit_list arguments of the constructor that are tried
ForceSplitLists == {<<>>}

\* the elements of a set of numbers in increasing order
RECURSIVE SortedSeq(_)
SortedSeq(S) ==
  IF S = {} THEN <<>>
  ELSE LET m == CHOOSE x \in S : \A y \in S : x <= y
       IN <<m>> \o SortedSeq(S \ {m})

\* every way to cut w into non-empty parts
Segmentations(w) ==
  {SplitlocToSegmentation(w, SortedSeq(S)) : S \in SUBSET (1..(Len(w) - 1))}

\* the record of a call: its name, the compound and the other arguments it
\* was given, the segments it returned
CallWith(op, compound, args, segs) ==
  [op |-> op, compound |-> compound, args |-> args, segs |-> segs]

Call(op, compound, segs) == CallWith(op, compound, <<>>, segs)

\* no training call is running
Idle == [pc |-> "idle"]

\* BaselineModel.__init__: supervised = False
Unsupervised == [supervised |-> FALSE]

\* annot_coding.update_count leaves the annotated accumulator alone: there
\* is none, or it counts no construction yet
AnnotationsUncounted(A) ==
  IF A.supervised THEN A.constructions = <<>> ELSE TRUE

\* a call made on the model directly: no training call is running, the call
\* is not one that is logged, it leaves the annotated accumulator alone, and
\* the random skips are off
Direct ==
  /\ frame = Idle
  /\ ~use_skips
  /\ AnnotationsUncounted(annot_coding)
  /\ UNCHANGED <<frame, log, annot_coding, use_skips, counter>>

Init ==
  /\ analyses = <<>>
  /\ corpus_coding = NewEncoding(WeightOne)
  /\ lexicon_coding = NewLexiconEncoding
  /\ forcesplit_list \in ForceSplitLists
  /\ err = ""
  /\ ret = Call("init", <<>>, <<>>)
  /\ annot_coding = Unsupervised
  /\ frame = Idle
  /\ log = <<>>
  /\ use_skips = FALSE
  /\ counter = <<>>

\* _add_compound(compound, c), as load_data and train_online call it
DoAddCompound ==
  \E w \in Compounds, c \in 1..MaxBoundaries :
    /\ err = ""
    /\ Direct
    /\ corpus_coding.boundaries + c <= MaxBoundaries
    /\ Commit(AddCompound(Self, w, c))
    /\ ret' = Call("add_compound", w, <<>>)

\* _set_compound_analysis(compound, parts), ptype 'flat'
DoSetAnalysisFlat ==
  \E w \in GetCompounds(Self) :
    \E parts \in Segmentations(w) :
      /\ err = ""
      /\ Direct
      /\ Commit(SetCompoundAnalysis(Self, w, parts, "flat"))
      /\ ret' = Call("set_analysis_flat", w, parts)

\* _set_compound_analysis(compound, parts, 'rbranch')
DoSetAnalysisRBranch ==
  \E w \in GetCompounds(Self) :
    \E parts \in Segmentations(w) :
      /\ err = ""
      /\ Direct
      /\ Commit(SetCompoundAnalysis(Self, w, parts, "rbranch"))
      /\ ret' = Call("set_analysis_rbranch", w, parts)

\* the state after a call of an optimizer that returned r
Returned(op, w, r) ==
  /\ Commit(r.M)
  /\ ret' = Call(op, w, r.segs)

\* _recursive_optimize(compound)
DoRecursiveOptimize ==
  \E w \in GetCompounds(Self) :
    /\ err = ""
    /\ Direct
    /\ Returned("recursive_optimize", w, RecursiveOptimize(Self, w))

\* the addcount arguments tried (0 = no smoothing)
AddCounts == {0, 1}

\* _viterbi_optimize(compound, addcount, maxlen)
DoViterbiOptimize ==
  \E w \in GetCompounds(Self) :
    \E addcount \in AddCounts, maxlen \in 1..MaxLen :
      /\ err = ""
      /\ Direct
      /\ Returned("viterbi_optimize", w,
                  ViterbiOptimize(Self, w, addcount, maxlen))

Next ==
  \/ DoAddCompound
  \/ DoSetAnalysisFlat
  \/ DoSetAnalysisRBranch
  \/ DoRecursiveOptimize
  \/ DoViterbiOptimize

Spec == Init /\ [][Next]_vars

\* the non-empty forcesplit_list arguments of the constructor that are tried
ForcedSplitLists == {<<"a">>, <<"b">>}

\* BaselineModel.__init__ with a non-empty forcesplit_list
InitForced ==
  /\ analyses = <<>>
  /\ corpus_coding = NewEncoding(WeightOne)
  /\ lexicon_coding = NewLexiconEncoding
  /\ forcesplit_list \in ForcedSplitLists
  /\ err = ""
  /\ ret = Call("init", <<>>, <<>>)
  /\ annot_coding = Unsupervised
  /\ frame = Idle
  /\ log = <<>>
  /\ use_skips = FALSE
  /\ counter = <<>>

NextForced ==
  \/ DoAddCompound
  \/ DoRecursiveOptimize
  \/ DoViterbiOptimize

\* the optimizers of a model with forced splits
SpecForced == InitForced /\ [][NextForced]_vars

\* _recursive_split(construction) on a compound, the costs it measures
\* logged
DoRecursiveSplit ==
  \E w \in GetCompounds(Self) :
    /\ err = ""
    /\ frame = Idle
    /\ AnnotationsUncounted(annot_coding)
    /\ Returned("recursive_split", w, RecursiveSplit(Self, w))
    /\ log' = ScanCosts(Self, w)
    /\ UNCHANGED <<annot_coding, frame, use_skips, counter>>

NextSplit ==
  \/ DoAddCompound
  \/ DoRecursiveSplit

\* the recursive splitter on a growing corpus
SpecSplit == Init /\ [][NextSplit]_vars

\* _remove(compound) on its own, for a compound that no other construction
\* has as a part: the store operation of two histories that differ by an
\* add and its remove
DoRemove ==
  \E w \in GetCompounds(Self) :
    /\ err = ""
    /\ Direct
    /\ analyses[w].count = analyses[w].rcount
    /\ Commit(Remove(Self, w))
    /\ ret' = Call("remove", w, <<>>)

NextStore ==
  \/ Next
  \/ DoRemove

\* the store under adds, re-analyses and removes
SpecStore == Init /\ [][NextStore]_vars

\* the state after viterbi_segment returned seg or raised: the model is not
\* changed
Segmented(compound, addcount, maxlen, seg) ==
  /\ Commit(IF seg.raised THEN Raise(Self, "ValueError") ELSE Self)
  /\ ret' = CallWith("viterbi_segment", compound, <<addcount, maxlen>>,
                     seg.constructions)

\* the compounds given to viterbi_segment: those of the corpus and one made
\* of atoms the corpus may not hold
SegmentInputs == Compounds \cup {<<"b", "b">>}

\* viterbi_segment(compound, addcount, maxlen)
DoViterbiSegment ==
  \E compound \in SegmentInputs, addcount \in AddCounts,
     maxlen \in 1..MaxLen :
    /\ err = ""
    /\ Direct
    /\ Segmented(compound, addcount, maxlen,
                 ViterbiSegment(Self, compound, addcount, maxlen))

NextSegment ==
  \/ DoAddCompound
  \/ DoSetAnalysisFlat
  \/ DoViterbiSegment

\* loading a segmented corpus, then segmenting
SpecSegment == Init /\ [][NextSegment]_vars

\* the counts given to update_count
Counts == {0, 1, 2, 5}

\* update_count(old_count, new_count) on the corpus accumulator, logged with
\* the accumulator it was made on
DoUpdateCount ==
  \E old_count \in Counts, new_count \in Counts :
    /\ frame = Idle
    /\ Len(log) < MaxCalls
    /\ corpus_coding' = UpdateCountFloat(corpus_coding, old_count, new_count)
    /\ log' = Append(log, [op |-> "update_count",
                           args |-> <<old_count, new_count>>,
                           on |-> corpus_coding])
    /\ ret' = CallWith("update_count", <<>>, <<old_count, new_count>>, <<>>)
    /\ UNCHANGED <<analyses, lexicon_coding, forcesplit_list, annot_coding,
                   err, frame, use_skips, counter>>

NextAccumulator == DoUpdateCount

\* an accumulator under calls of update_count
SpecAccumulator == Init /\ [][NextAccumulator]_vars

\* the algorithm and algorithm_params arguments of the training calls
Algorithms ==
  {[name |-> "recursive", params |-> <<>>],
   [name |-> "viterbi", params |-> <<0, MaxLen>>],
   [name |-> "other", params |-> <<>>]}

\* the finish_threshold arguments: 0 and the default 0.005
FinishThresholds == {[num |-> 0, den |-> 1], [num |-> 1, den |-> 200]}

\* train_batch up to its while loop
TrainBatchStart ==
  \E algorithm \in Algorithms, finish_threshold \in FinishThresholds :
    /\ err = ""
    /\ frame = Idle
    /\ frame' = [pc |-> "train_batch",
                 algorithm |-> algorithm,
                 finish_threshold |-> finish_threshold,
                 compounds |-> GetCompounds(Self),
                 epochs |-> 0,
                 oldcost |-> 0,
                 newcost |-> GetCost(Self),
                 forced_epochs |-> 1]
    /\ UNCHANGED <<analyses, corpus_coding, lexicon_coding, forcesplit_list,
                   annot_coding, err, ret, log, use_skips, counter>>

\* the state after an epoch that left the model M and the locals f
EpochDone(M, f) ==
  /\ Commit(M)
  /\ frame' = f
  /\ ret' = IF f.pc = "returned"
            THEN CallWith("train_batch", <<>>,
                          <<f.algorithm.name, f.finish_threshold>>,
                          <<f.epochs, f.newcost>>)
            ELSE ret
  /\ UNCHANGED <<annot_coding, log, use_skips, counter>>

\* one pass of the while loop of train_batch (devel_annotations None)
TrainBatchEpoch ==
  /\ frame.pc = "train_batch"
  /\ \E order \in Orders(frame.compounds) :
       EpochDone(EpochFrom(Self, frame.algorithm, order, 1),
                 EpochEnd(frame, EpochFrom(Self, frame.algorithm, order, 1)))

NextBatch ==
  \/ DoAddCompound
  \/ TrainBatchStart
  \/ TrainBatchEpoch

\* load_data, then train_batch; the loop of train_batch goes on by itself
SpecBatch == Init /\ [][NextBatch]_vars /\ WF_vars(TrainBatchEpoch)

\* the streams given to train_online
RECURSIVE StreamsOfLen(_)
StreamsOfLen(n) ==
  IF n = 0 THEN {<<>>}
  ELSE {Append(d, w) : d \in StreamsOfLen(n - 1), w \in StreamCompounds}

Streams == UNION {StreamsOfLen(n) : n \in 0..MaxStream}

\* the count_modifier arguments: the default, the three of main() and one
\* with f(1) # 1
CountModifiers == {"None", "identity", "log", "ones", "double"}

\* train_online up to the first read of the stream
TrainOnlineStart ==
  \E data \in Streams, count_modifier \in CountModifiers,
     epoch_interval \in 1..MaxInterval, algorithm \in Algorithms :
    /\ err = ""
    /\ frame = Idle
    /\ frame' = [pc |-> "train_online",
                 stream |-> data,
                 data |-> data,
                 count_modifier |-> count_modifier,
                 epoch_interval |-> epoch_interval,
                 algorithm |-> algorithm,
                 counts |-> <<>>,
                 epochs |-> 0,
                 i |-> 0,
                 j |-> 0]
    /\ log' = <<>>
    /\ UNCHANGED <<analyses, corpus_coding, lexicon_coding, forcesplit_list,
                   annot_coding, err, ret, use_skips, counter>>

\* the state after the stream item w left the model M2
OnlineItemDone(w, M2) ==
  /\ Commit(M2)
  /\ frame' = OnlineItemLocals(frame, w, M2)
  /\ log' = log \o OnlineLogged(frame, w)
  /\ UNCHANGED <<annot_coding, ret, use_skips, counter>>

\* one pass of the for loop of train_online that reads an item: the item is
\* added and optimized
TrainOnlineItem ==
  /\ frame.pc = "train_online"
  /\ frame.data # <<>>
  /\ OnlineItemDone(Head(frame.data),
                    Optimize(OnlineAdded(Self, frame, Head(frame.data)),
                             frame.algorithm, Head(frame.data)).M)

\* the read that finds the stream exhausted: the epoch is counted and
\* train_online returns (epochs, newcost)
TrainOnlineExhausted ==
  /\ frame.pc = "train_online"
  /\ frame.data = <<>>
  /\ frame' = [frame EXCEPT !.pc = "returned", !.epochs = @ + 1]
  /\ ret' = CallWith("train_online", <<>>,
                     <<frame.algorithm.name, frame.epoch_interval>>,
                     <<frame.epochs + 1, GetCost(Self)>>)
  /\ UNCHANGED <<analyses, corpus_coding, lexicon_coding, forcesplit_list,
                 annot_coding, err, log, use_skips, counter>>

NextOnline ==
  \/ TrainOnlineStart
  \/ TrainOnlineItem
  \/ TrainOnlineExhausted

\* train_online on a new model
SpecOnline == Init /\ [][NextOnline]_vars

\* the counts of the entries given to load_segmentations
LoadCounts == {1, 2}

\* the entries and the lists given to load_segmentations
LoadEntries ==
  {[count |-> c, segmentation |-> parts] :
     c \in LoadCounts, parts \in UNION {Segmentations(w) : w \in Compounds}}

RECURSIVE ListsOfLen(_)
ListsOfLen(n) ==
  IF n = 0 THEN {<<>>}
  ELSE {Append(l, e) : l \in ListsOfLen(n - 1), e \in LoadEntries}

SegmentationLists == UNION {ListsOfLen(n) : n \in 0..MaxEntries}

\* load_segmentations(segmentations) into a new model; the list is logged
DoLoadSegmentations ==
  \E segmentations \in SegmentationLists :
    /\ err = ""
    /\ frame = Idle
    /\ ret.op = "init"
    /\ Commit(LoadSegmentations(Self, segmentations, 1))
    /\ log' = segmentations
    /\ ret' = Call("load_segmentations", <<>>, <<>>)
    /\ UNCHANGED <<annot_coding, frame, use_skips, counter>>

\* get_segmentations(), read to its end
DoGetSegmentations ==
  /\ err = ""
  /\ frame = Idle
  /\ ret.op # "get_segmentations"
  /\ ret' = Call("get_segmentations", <<>>, GetSegmentations(Self))
  /\ UNCHANGED <<analyses, corpus_coding, lexicon_coding, forcesplit_list,
                 annot_coding, err, frame, log, use_skips, counter>>

NextLoad ==
  \/ DoLoadSegmentations
  \/ DoGetSegmentations

\* load_segmentations into a new model, then get_segmentations
SpecLoad == Init /\ [][NextLoad]_vars

\* the entries of the corpora given to load_data: a corpus list file has
\* one entry per compound, a corpus of running text one per token
CorpusEntries ==
  {[count |-> c, atoms |-> w] : c \in LoadCounts, w \in StreamCompounds}

RECURSIVE CorporaOfLen(_)
CorporaOfLen(n) ==
  IF n = 0 THEN {<<>>}
  ELSE {Append(l, e) : l \in CorporaOfLen(n - 1), e \in CorpusEntries}

Corpora == UNION {CorporaOfLen(n) : n \in 0..MaxCorpus}

\* the freqthreshold arguments
FreqThresholds == {1, 2}

\* the cfunc arguments: the dampening functions of main()
CountFunctions == {"identity", "log", "ones"}

\* what _random_split may return for each entry of the corpus
RandomSplits(corpus) ==
  {splits \in [1..Len(corpus) ->
                 UNION {Segmentations(w) : w \in StreamCompounds}] :
     \A i \in 1..Len(corpus) : splits[i] \in Segmentations(corpus[i].atoms)}

\* the state after load_data left the model M
Loaded(M, corpus, freqthreshold, cfunc, rand) ==
  /\ Commit(M)
  /\ log' = corpus
  /\ ret' = CallWith("load_data", <<>>, <<freqthreshold, cfunc, rand>>,
                     <<GetCost(M)>>)
  /\ UNCHANGED <<annot_coding, frame, use_skips, counter>>

\* load_data(corpus, freqthreshold, cfunc) into a new model
DoLoadData ==
  \E corpus \in Corpora, freqthreshold \in FreqThresholds,
     cfunc \in CountFunctions :
    /\ err = ""
    /\ frame = Idle
    /\ ret.op = "init"
    /\ Loaded(LoadData(Self, corpus, freqthreshold, cfunc, <<>>, 1),
              corpus, freqthreshold, cfunc, "None")

\* load_data(corpus, freqthreshold, cfunc, init_rand_split) with
\* 0 < init_rand_split < 1
DoLoadDataRandSplit ==
  \E corpus \in Corpora \ {<<>>}, freqthreshold \in FreqThresholds,
     cfunc \in CountFunctions :
    \E splits \in RandomSplits(corpus) :
      /\ err = ""
      /\ frame = Idle
      /\ ret.op = "init"
      /\ Loaded(LoadData(Self, corpus, freqthreshold, cfunc, splits, 1),
                corpus, freqthreshold, cfunc, "random")

NextLoadData ==
  \/ DoLoadData
  \/ DoLoadDataRandSplit

\* load_data into a new model
SpecLoadData == Init /\ [][NextLoadData]_vars

\* _set_compound_analysis(compound, parts, ptype) with a ptype that is
\* neither 'flat' nor 'rbranch'
DoSetAnalysisOther ==
  \E w \in GetCompounds(Self) :
    \E parts \in Segmentations(w) :
      /\ err = ""
      /\ Direct
      /\ Commit(SetCompoundAnalysis(Self, w, parts, "other"))
      /\ ret' = CallWith("set_compound_analysis", w, <<"other">>, parts)

NextConfig ==
  \/ DoAddCompound
  \/ DoSetAnalysisOther
  \/ TrainBatchStart
  \/ TrainBatchEpoch

\* _set_compound_analysis with an unknown parse type and train_batch on a
\* loaded model
SpecConfig == Init /\ [][NextConfig]_vars

\* the dcount arguments given to _modify_construction_count
Deltas == {-2, -1}

\* _modify_construction_count(construction, dcount) on a construction of
\* the store that has no negative count yet, whatever its count is
DoModifyCount ==
  \E w \in DOMAIN analyses, dcount \in Deltas :
    /\ err = ""
    /\ Direct
    /\ analyses[w].count >= 0
    /\ Commit(ModifyConstructionCount(Self, w, dcount))
    /\ ret' = CallWith("modify_construction_count", w,
                       <<analyses[w].count, dcount>>, <<>>)

\* the corpus tokens that the compounds ws account for: rcount times the
\* number of segments of the expansion
RECURSIVE CompoundTokens(_, _)
CompoundTokens(M, ws) ==
  IF ws = {} THEN 0
  ELSE M.analyses[CHOOSE w \in ws : TRUE].rcount
       * Len(ExpandConstruction(M, CHOOSE w \in ws : TRUE))
       + CompoundTokens(M, ws \ {CHOOSE w \in ws : TRUE})

\* the corpus tokens that direct count increases added
RaisedTokens(M) == M.corpus.tokens - CompoundTokens(M, GetCompounds(M))

\* _modify_construction_count(construction, dcount) with a positive dcount
\* on a construction of the store, while the tokens so added stay few
DoModifyCountUp ==
  \E w \in DOMAIN analyses, dcount \in 1..MaxRaised :
    /\ err = ""
    /\ Direct
    /\ RaisedTokens(ModifyConstructionCount(Self, w, dcount)) <= MaxRaised
    /\ Commit(ModifyConstructionCount(Self, w, dcount))
    /\ ret' = CallWith("modify_construction_count", w,
                       <<analyses[w].count, dcount>>, <<>>)

NextReach ==
  \/ DoAddCompound
  \/ DoModifyCountUp
  \/ DoRemove
  \/ DoSetAnalysisFlat

\* the store under adds, count increases, removes and re-analyses
SpecReach == Init /\ [][NextReach]_vars

\* update_count(old_count, new_count) with new_count below 0 on the corpus
\* accumulator while its tokens are not negative
DoUpdateCountBelowZero ==
  \E old_count \in Counts, new_count \in {-2, -1} :
    /\ err = ""
    /\ Direct
    /\ corpus_coding.tokens >= 0
    /\ corpus_coding' = UpdateCountFloat(corpus_coding, old_count, new_count)
    /\ ret' = CallWith("update_count", <<>>, <<old_count, new_count>>, <<>>)
    /\ UNCHANGED <<analyses, lexicon_coding, forcesplit_list, err>>

NextCounts ==
  \/ DoAddCompound
  \/ DoModifyCount
  \/ DoUpdateCountBelowZero

\* count changes of any size on a loaded model
SpecCounts == Init /\ [][NextCounts]_vars

\* the segmentation sets over a list of compounds: every compound with
\* any set of alternatives (empty sets left out), or with one alternative
RECURSIVE SetsOver(_, _)
SetsOver(n, single) ==
  IF n = 0 THEN {<<>>}
  ELSE {Append(S, alts) :
          S \in SetsOver(n - 1, single),
          alts \in UNION {IF single
                          THEN {{parts} : parts \in Segmentations(w)}
                          ELSE (SUBSET Segmentations(w)) \ {{}} :
                          w \in Compounds}}

\* the state after the one call _bpr_evaluation(prediction, reference)
\* returned or raised
Evaluated(prediction, reference, bpr) ==
  /\ ret' = CallWith("bpr_evaluation", <<>>, <<prediction, reference>>,
                     bpr.value)
  /\ err' = IF bpr.raised THEN "ZeroDivisionError" ELSE ""
  /\ UNCHANGED <<analyses, corpus_coding, lexicon_coding, forcesplit_list,
                 annot_coding, frame, log, use_skips, counter>>

\* _bpr_evaluation(prediction, reference) as _estimate_segmentation_dir
\* calls it, on one predicted and one reference segmentation per compound
DoBprEvaluation ==
  /\ ret.op = "init"
  /\ \E n \in 0..MaxWords :
    \E prediction \in SetsOver(n, TRUE), reference \in SetsOver(n, TRUE) :
      /\ \A k \in 1..n : Concat(CHOOSE p \in prediction[k] : TRUE, 1)
                         = Concat(CHOOSE r \in reference[k] : TRUE, 1)
      /\ Evaluated(prediction, reference,
                   BprEvaluation(prediction, reference))

\* _bpr_evaluation(S, S) of a segmentation set with alternatives
DoBprEvaluationSelf ==
  /\ ret.op = "init"
  /\ \E n \in 1..MaxWords :
    \E S \in SetsOver(n, FALSE) :
      Evaluated(S, S, BprEvaluation(S, S))

NextEvaluation ==
  \/ DoBprEvaluation
  \/ DoBprEvaluationSelf

\* calls of _bpr_evaluation
SpecEvaluation == Init /\ [][NextEvaluation]_vars

\* the annotations given to set_annotations
AnnotationSets ==
  {<<>>,
   <<<< <<"b", "a">>, << << <<"b">>, <<"a">> >> >> >> >>,
   <<<< <<"a", "a">>, << << <<"a", "a">> >>, << <<"a">>, <<"a">> >> >> >> >>,
   <<<< <<"b", "a">>, << << <<"b">>, <<"a">> >> >> >>,
     << <<"b", "a", "a">>, << << <<"b", "a">>, <<"a">> >>,
                              << <<"b">>, <<"a", "a">> >> >> >> >>}

\* set_annotations(annotations, annotatedcorpusweight)
DoSetAnnotations ==
  \E annotations \in AnnotationSets,
     annotatedcorpusweight \in {NoWeight, WeightOne} :
    /\ err = ""
    /\ frame = Idle
    /\ ~annot_coding.supervised
    /\ annot_coding' = SetAnnotations(annotations, annotatedcorpusweight)
    /\ ret' = Call("set_annotations", <<>>, <<>>)
    /\ UNCHANGED <<analyses, corpus_coding, lexicon_coding, forcesplit_list,
                   err, frame, log, use_skips, counter>>

\* _epoch_update(epoch_num): the counters of the random skips are reset, the
\* visits of the training pass that ended are forgotten
DoEpochUpdate ==
  /\ err = ""
  /\ frame = Idle
  /\ counter' = IF use_skips THEN <<>> ELSE counter
  /\ log' = IF use_skips THEN <<>> ELSE log
  /\ annot_coding' = EpochUpdate(Self, annot_coding).A
  /\ err' = EpochUpdate(Self, annot_coding).err
  /\ ret' = Call("epoch_update", <<>>, <<>>)
  /\ UNCHANGED <<analyses, corpus_coding, lexicon_coding, forcesplit_list,
                 frame, use_skips>>

\* get_cost()
DoGetCost ==
  /\ err = ""
  /\ frame = Idle
  /\ err' = ModelGetCost(Self, annot_coding).err
  /\ ret' = Call("get_cost", <<>>, ModelGetCost(Self, annot_coding).cost)
  /\ UNCHANGED <<analyses, corpus_coding, lexicon_coding, forcesplit_list,
                 annot_coding, frame, log, use_skips, counter>>

NextAnnotated ==
  \/ DoAddCompound
  \/ DoSetAnnotations
  \/ DoEpochUpdate
  \/ DoGetCost

\* a corpus, annotations, epoch updates and cost reads
SpecAnnotated == Init /\ [][NextAnnotated]_vars

(***************************************************************************)
(* Store invariants                                                        *)
(***************************************************************************)
\* number of positions of parts that hold r
Occurrences(parts, r) == Cardinality({k \in 1..Len(parts) : parts[k] = r})

\* sum over the compounds ws of rcount(w) times the occurrences of r in the
\* full expansion of w
RECURSIVE ExpandedCount(_, _, _)
ExpandedCount(M, ws, r) ==
  IF ws = {} THEN 0
  ELSE LET w == CHOOSE x \in ws : TRUE
       IN M.analyses[w].rcount * Occurrences(ExpandConstruction(M, w), r)
          + ExpandedCount(M, ws \ {w}, r)

\* sum over the virtual nodes ps of count(p) times the occurrences of c
\* among the children of p
RECURSIVE ChildCount(_, _, _)
ChildCount(M, ps, c) ==
  IF ps = {} THEN 0
  ELSE LET p == CHOOSE x \in ps : TRUE
           node == M.analyses[p]
       IN (IF Len(node.splitloc) > 0
           THEN node.count
                * Occurrences(SplitlocToSegmentation(p, node.splitloc), c)
           ELSE 0)
          + ChildCount(M, ps \ {p}, c)

\* the real constructions of the store
RealConstructions(M) ==
  {c \in DOMAIN M.analyses : M.analyses[c].splitloc = <<>>}

\* C1: in every reachable state, for every construction w with root count
\* > 0, _expand_construction(w) is defined and returns constructions that
\* are all real nodes of the store and whose concatenation, in order, is w.
ExpansionReconstructs ==
  \A w \in GetCompounds(Self) :
    /\ ExpandDefined(Self, w)
    /\ LET parts == ExpandConstruction(Self, w)
       IN /\ Concat(parts, 1) = w
          /\ \A k \in 1..Len(parts) : parts[k] \in RealConstructions(Self)

\* a compound of three atoms whose expansion goes through a virtual child
ExpansionReconstructsWitness ==
  \E w \in GetCompounds(Self) :
    /\ Len(analyses[w].splitloc) = 1
    /\ \E child \in DOMAIN analyses :
         /\ child = Slice(w, analyses[w].splitloc[1], Len(w))
         /\ Len(analyses[child].splitloc) = 1
    /\ Len(ExpandConstruction(Self, w)) = 3

\* C2: counts are conserved: in every reachable state the count of every
\* real construction r is the sum over the compounds w of rcount(w) times
\* the number of occurrences of r in the full expansion of w.
CountsConserved ==
  \A r \in RealConstructions(Self) :
    analyses[r].count = ExpandedCount(Self, GetCompounds(Self), r)

\* a real construction shared by two compounds, one of which holds it twice
CountsConservedWitness ==
  /\ ret.op \in {"set_analysis_flat", "set_analysis_rbranch",
                 "recursive_optimize", "viterbi_optimize"}
  /\ Cardinality(GetCompounds(Self)) >= 2
  /\ \E r \in RealConstructions(Self) :
       /\ analyses[r].count = MaxBoundaries
       /\ \E w \in GetCompounds(Self) :
            Occurrences(ExpandConstruction(Self, w), r) = 2

\* C3: a node exists iff its count is > 0: after every completed operation
\* every node of the store has count >= 1, its count is its root count plus
\* its uses as a child, and so a construction nothing uses has no node.
NodeIffPositiveCount ==
  \A c \in DOMAIN analyses :
    /\ analyses[c].count >= 1
    /\ analyses[c].count
         = analyses[c].rcount + ChildCount(Self, DOMAIN analyses, c)

\* the recursive optimizer tried the splits of a three-atom compound, which
\* gave its atoms nodes, and kept it whole: the atoms have no node left
NodeIffPositiveCountWitness ==
  /\ ret.op = "recursive_optimize"
  /\ Len(ret.compound) = 3
  /\ ret.segs = <<ret.compound>>
  /\ DOMAIN analyses = {ret.compound}

(***************************************************************************)
(* Cost accumulators against the store                                     *)
(***************************************************************************)
\* the accumulators rebuilt from scratch: every real construction of rs is
\* registered with count M.analyses[r].count, as _modify_construction_count
\* does on a 0 -> count transition
RECURSIVE RebuildFrom(_, _, _)
RebuildFrom(M, rs, acc) ==
  IF rs = {} THEN acc
  ELSE RebuildFrom(M, rs \ {CHOOSE r \in rs : TRUE},
                   ModifyReal(acc, CHOOSE r \in rs : TRUE, 0,
                              M.analyses[CHOOSE r \in rs : TRUE].count))

Rebuilt(M) ==
  RebuildFrom(M, RealConstructions(M), NewModel(<<>>, M.corpus.weight))

\* the statistics get_cost reads from the lexicon accumulator and, from the
\* corpus accumulator, those the store determines
CostStats(M) ==
  [lexicon_tokens      |-> M.lexicon.tokens,
   lexicon_boundaries  |-> M.lexicon.boundaries,
   lexicon_logtokensum |-> M.lexicon.logtokensum,
   lexicon_types       |-> LexiconGetTypes(M.lexicon),
   corpus_tokens       |-> M.corpus.tokens,
   corpus_logtokensum  |-> M.corpus.logtokensum,
   corpus_types        |-> CorpusGetTypes(M.lexicon)]

\* C4: in every reachable state the statistics the accumulators use in
\* get_cost are those of accumulators rebuilt from the current store
\* contents, whatever history of adds and removes led to the store.
IncrementalEqualsRebuilt == CostStats(Self) = CostStats(Rebuilt(Self))

\* the statistics agree but for the number of types of the lexicon: an atom
\* whose count went back to 0 is still counted
StaleAtomCounted ==
  /\ ret.op = "remove"
  /\ \E atom \in DOMAIN lexicon_coding.atoms : lexicon_coding.atoms[atom] = 0
  /\ [CostStats(Self) EXCEPT !.lexicon_types = @ - 1]
       = CostStats(Rebuilt(Self))

(***************************************************************************)
(* Viterbi segmentation                                                    *)
(***************************************************************************)
\* the segmentation of a compound into its single atoms, from atom i on
RECURSIVE AtomsFrom(_, _)
AtomsFrom(compound, i) ==
  IF i > Len(compound) THEN <<>>
  ELSE <<Slice(compound, i - 1, i)>> \o AtomsFrom(compound, i + 1)

\* the last call was viterbi_segment on a model that has real constructions,
\* all of them single atoms, with maxlen >= the length of the compound
SegmentedOverAtoms ==
  /\ ret.op = "viterbi_segment"
  /\ RealConstructions(Self) # {}
  /\ \A r \in RealConstructions(Self) : Len(r) = 1
  /\ ret.args[2] >= Len(ret.compound)

\* C5 as stated: for a model whose real constructions are all single atoms
\* and maxlen >= the compound's length, viterbi_segment returns the
\* segmentation of the compound into its single atoms, whatever addcount is.
SegmentsIntoAtoms ==
  SegmentedOverAtoms => err = "" /\ ret.segs = AtomsFrom(ret.compound, 1)

\* C5 amended: the same with addcount = 0 (no smoothing); with smoothing a
\* construction that is not in the store can be cheaper than its atoms.
SegmentsIntoAtomsUnsmoothed ==
  SegmentedOverAtoms /\ ret.args[1] = 0
    => err = "" /\ ret.segs = AtomsFrom(ret.compound, 1)

\* a compound of three atoms, one of them not in the store, was segmented
\* without smoothing
SegmentsIntoAtomsWitness ==
  /\ SegmentedOverAtoms
  /\ ret.args[1] = 0
  /\ Len(ret.compound) = 3
  /\ \E k \in 1..3 : Slice(ret.compound, k - 1, k) \notin DOMAIN analyses
  /\ Len(ret.segs) = 3

(***************************************************************************)
(* Recursive optimizer                                                     *)
(***************************************************************************)
\* r is what a second _recursive_optimize(compound) returns when run in the
\* current state: it returns the same segments and leaves every node and
\* the total cost as they are
RunsUnchanged(r) ==
  /\ r.M.err = ""
  /\ r.segs = ret.segs
  /\ r.M.analyses = analyses
  /\ GetCost(r.M) = GetCost(Self)

\* C6 as stated: _recursive_optimize run on a construction immediately
\* after it has been run on that construction changes no node's split
\* points or counts, nor the total cost.
RecursiveOptimizeIdempotent ==
  ret.op = "recursive_optimize"
    => RunsUnchanged(RecursiveOptimize(Self, ret.compound))

\* C6 amended: the same for a construction of two atoms, and for a longer
\* one that the first run left unsplit; a longer construction that the
\* first run split can be split otherwise by the second run.
RecursiveOptimizeIdempotentShallow ==
  /\ ret.op = "recursive_optimize"
  /\ Len(ret.compound) = 2 \/ ret.segs = <<ret.compound>>
  => RunsUnchanged(RecursiveOptimize(Self, ret.compound))

\* the optimizer split a two-atom compound that shares an atom with another
\* compound of the store
RecursiveOptimizeIdempotentWitness ==
  /\ ret.op = "recursive_optimize"
  /\ Len(ret.compound) = 2
  /\ Len(ret.segs) = 2
  /\ Cardinality(GetCompounds(Self)) >= 2
  /\ \E k \in 1..2 : analyses[ret.segs[k]].count > analyses[ret.compound].count

(***************************************************************************)
(* update_count and its inverse                                            *)
(***************************************************************************)
\* the accumulator after the k-th logged call
AfterCall(k) == IF k = Len(log) THEN corpus_coding ELSE log[k + 1].on

\* the calls k and k + 1 are update_count(a, b) and update_count(b, a)
ForthAndBack(k) ==
  log[k + 1].args = <<log[k].args[2], log[k].args[1]>>

\* C7 as stated: update_count(a, b) followed by update_count(b, a) returns
\* tokens and logtokensum to the values they had before the first call
UpdateCountInverse ==
  \A k \in 1..(Len(log) - 1) :
    ForthAndBack(k)
      => /\ AfterCall(k + 1).tokens = log[k].on.tokens
         /\ AfterCall(k + 1).logtokensum = log[k].on.logtokensum

\* C7 amended: update_count(a, b) followed by update_count(b, a) returns
\* tokens to its value, and logtokensum too when it was 0.0 and a <= 1 (a
\* fresh accumulator, a = 0, b = 5); from another value the float sum may
\* come back changed by its roundings
UpdateCountInverseFromZero ==
  \A k \in 1..(Len(log) - 1) :
    ForthAndBack(k)
      => /\ AfterCall(k + 1).tokens = log[k].on.tokens
         /\ log[k].on.logtokensum = 0 /\ log[k].args[1] <= 1
              => AfterCall(k + 1).logtokensum = 0

\* update_count(0, 5) then update_count(5, 0) were made on an accumulator
\* with logtokensum 0.0, which holds 5 * log(5) in between
UpdateCountInverseWitness ==
  \E k \in 1..(Len(log) - 1) :
    /\ log[k].args = <<0, 5>>
    /\ log[k + 1].args = <<5, 0>>
    /\ log[k].on.logtokensum = 0
    /\ log[k + 1].on.logtokensum > 0
    /\ AfterCall(k + 1).logtokensum = 0


(***************************************************************************)
(* train_batch                                                             *)
(***************************************************************************)
\* C8: train_batch returns after at least two epochs: the stop test is not
\* applied at the end of the first one
TrainBatchTwoEpochs == frame.pc = "returned" => frame.epochs >= 2

\* train_batch returned after exactly two epochs of a corpus that is not
\* empty, the second of which did not lower the cost
TrainBatchTwoEpochsWitness ==
  /\ frame.pc = "returned"
  /\ frame.epochs = 2
  /\ frame.compounds # {}
  /\ frame.newcost = frame.oldcost


\* the reduction of the cost over the last epoch is below, or at most,
\* finish_threshold times the corpus boundary count
ReductionBelow(f, boundaries) ==
  (f.oldcost - f.newcost) * f.finish_threshold.den
    < f.finish_threshold.num * boundaries * LogScale

ReductionAtMost(f, boundaries) ==
  (f.oldcost - f.newcost) * f.finish_threshold.den
    <= f.finish_threshold.num * boundaries * LogScale

\* a step that runs an epoch to its stop test with no forced epochs left
EpochAfterForced ==
  /\ frame.pc = "train_batch"
  /\ frame.forced_epochs = 0
  /\ frame'.epochs = frame.epochs + 1

\* the model after the next epoch run in the given order
NextEpoch(order) == EpochFrom(Self, frame.algorithm, order, 1)

\* no forced epochs are left and, in whatever order the next epoch runs,
\* its reduction is below (at most) the bound
NextReductionBelow ==
  /\ frame.pc = "train_batch"
  /\ frame.forced_epochs = 0
  /\ \A order \in Orders(frame.compounds) :
       /\ NextEpoch(order).err = ""
       /\ (frame.newcost - GetCost(NextEpoch(order)))
            * frame.finish_threshold.den
          < frame.finish_threshold.num * NextEpoch(order).corpus.boundaries
            * LogScale

NextReductionAtMost ==
  /\ frame.pc = "train_batch"
  /\ frame.forced_epochs = 0
  /\ \A order \in Orders(frame.compounds) :
       /\ NextEpoch(order).err = ""
       /\ (frame.newcost - GetCost(NextEpoch(order)))
            * frame.finish_threshold.den
          <= frame.finish_threshold.num * NextEpoch(order).corpus.boundaries
             * LogScale

\* C9 as stated: once no forced epochs remain, train_batch returns at the
\* end of an epoch exactly when the reduction of the cost over it is below
\* finish_threshold times the boundary count, and goes on when it is at
\* least that; so an epoch whose reduction is below the bound is the last
StopsBelowThreshold ==
  [][/\ EpochAfterForced
          => (frame'.pc = "returned"
                <=> ReductionBelow(frame', corpus_coding'.boundaries))
     /\ NextReductionBelow /\ frame' # frame => frame'.pc = "returned"]_vars

\* C9 amended: once no forced epochs remain, train_batch returns at the end
\* of an epoch exactly when the reduction is at most finish_threshold times
\* the boundary count, and goes on when it is more than that; so an epoch
\* whose reduction is at most the bound is the last
StopsAtThreshold ==
  [][/\ EpochAfterForced
          => (frame'.pc = "returned"
                <=> ReductionAtMost(frame', corpus_coding'.boundaries))
     /\ NextReductionAtMost /\ frame' # frame => frame'.pc = "returned"]_vars

\* train_batch returned after an epoch whose reduction is just the bound,
\* and an epoch after the forced one had lowered the cost by more
StopsAtThresholdWitness ==
  /\ frame.pc = "returned"
  /\ frame.epochs >= 3
  /\ ReductionAtMost(frame, corpus_coding.boundaries)
  /\ ~ReductionBelow(frame, corpus_coding.boundaries)


(***************************************************************************)
(* train_online                                                            *)
(***************************************************************************)
\* the logged calls as <<operation, compound>> pairs
Entries(lg) == [k \in 1..Len(lg) |-> <<lg[k].op, lg[k].compound>>]

\* every item of the stream added, then optimized, in stream order
AddedAndOptimized(stream) ==
  [k \in 1..(2 * Len(stream)) |->
     IF k % 2 = 1 THEN <<"add", stream[(k + 1) \div 2]>>
     ELSE <<"optimize", stream[k \div 2]>>]

IsOptimize(entry) == entry[1] = "optimize"

\* the optimizer ran on every item of the stream once, in stream order, and
\* an item that was added was added just before its optimizer call
OptimizedInOrder(f, lg) ==
  /\ SelectSeq(Entries(lg), IsOptimize)
       = [k \in 1..Len(f.stream) |-> <<"optimize", f.stream[k]>>]
  /\ \A k \in 1..Len(lg) :
       lg[k].op = "add"
         => k < Len(lg) /\ lg[k + 1] = [op |-> "optimize",
                                        compound |-> lg[k].compound,
                                        count |-> 0]

\* train_online returned with the stream read to its end and epochs the
\* number of windows started
ReturnedAtEnd(f) ==
  /\ f.data = <<>>
  /\ f.epochs = (Len(f.stream) \div f.epoch_interval) + 1

\* a step of train_online reads an item of the stream or returns
OnlineProgress ==
  frame.pc = "train_online" /\ frame' # frame
    => Len(frame'.data) < Len(frame.data) \/ frame'.pc = "returned"

\* C10 as stated: train_online terminates (every step consumes the stream
\* or returns); when it returns it has added and optimized every item of
\* the stream once, in stream order, the stream is exhausted, and epochs is
\* floor(N / epoch_interval) + 1
TrainOnlineAddsEveryItem ==
  [][/\ OnlineProgress
     /\ frame'.pc = "returned"
          => /\ ReturnedAtEnd(frame')
             /\ Entries(log') = AddedAndOptimized(frame'.stream)]_vars

\* C10 amended: train_online terminates; when it returns it has optimized
\* every item of the stream once, in stream order, each item that was added
\* was added once just before its optimizer call, every item was added when
\* count_modifier is None or the identity, the stream is exhausted, and
\* epochs is floor(N / epoch_interval) + 1
TrainOnlineOptimizesEveryItem ==
  [][/\ OnlineProgress
     /\ frame'.pc = "returned"
          => /\ ReturnedAtEnd(frame')
             /\ OptimizedInOrder(frame', log')
             /\ frame'.count_modifier \in {"None", "identity"}
                  => Entries(log') = AddedAndOptimized(frame'.stream)]_vars

\* train_online returned from a stream of three items read in windows of
\* two, the last item a repeat that the count modifier kept from being added
TrainOnlineOptimizesEveryItemWitness ==
  /\ frame.pc = "returned"
  /\ Len(frame.stream) = 3
  /\ frame.epoch_interval = 2
  /\ frame.epochs = 2
  /\ Len(log) = 5
  /\ log[5].op = "optimize"
  /\ log[4].op = "optimize"


(***************************************************************************)
(* load_segmentations and get_segmentations                                *)
(***************************************************************************)
\* the compound of a loaded entry
Compound(entry) == Concat(entry.segmentation, 1)

\* the loaded entries have pairwise distinct compounds
DistinctCompounds ==
  \A i, j \in 1..Len(log) : Compound(log[i]) = Compound(log[j]) => i = j

\* what was yielded is, ordered by compound, one (count, segment list) per
\* loaded entry
YieldsLoaded(yielded) ==
  /\ Len(yielded) = Len(log)
  /\ \A k \in 1..(Len(yielded) - 1) :
       Before(Concat(yielded[k][2], 1), Concat(yielded[k + 1][2], 1))
  /\ \A k \in 1..Len(yielded) :
       \E i \in 1..Len(log) :
         yielded[k] = <<log[i].count, log[i].segmentation>>

\* no segment of a loaded entry is the compound of an entry loaded with
\* more than one segment
NoSegmentLoadedSplit ==
  \A i, j \in 1..Len(log) :
    Len(log[j].segmentation) > 1
      => \A k \in 1..Len(log[i].segmentation) :
           log[i].segmentation[k] # Compound(log[j])

\* C11 as stated: after loading a list of entries with pairwise distinct
\* compounds into a new model, get_segmentations yields, ordered by
\* compound, one entry per loaded compound with its loaded count and its
\* loaded segment list
LoadGetRoundTrip ==
  ret.op = "get_segmentations" /\ DistinctCompounds
    => YieldsLoaded(ret.segs)

\* C11 amended: the same, for a list in which no segment of an entry is the
\* compound of an entry loaded with more than one segment
LoadGetRoundTripUnshared ==
  ret.op = "get_segmentations" /\ DistinctCompounds /\ NoSegmentLoadedSplit
    => YieldsLoaded(ret.segs)

\* two entries with counts 2 and 1 were loaded, the later one first in
\* compound order and split, and both were yielded
LoadGetRoundTripWitness ==
  /\ ret.op = "get_segmentations"
  /\ DistinctCompounds
  /\ NoSegmentLoadedSplit
  /\ Len(log) = 2
  /\ Before(Compound(log[2]), Compound(log[1]))
  /\ Len(log[2].segmentation) = 2
  /\ log[1].count = 2
  /\ ret.segs = <<<<log[2].count, log[2].segmentation>>,
                  <<log[1].count, log[1].segmentation>>>>


(***************************************************************************)
(* load_data                                                               *)
(***************************************************************************)
\* the sum of the counts of the entries of w in the logged corpus, from
\* entry i on
RECURSIVE CorpusCount(_, _)
CorpusCount(w, i) ==
  IF i > Len(log) THEN 0
  ELSE (IF log[i].atoms = w THEN log[i].count ELSE 0) + CorpusCount(w, i + 1)

\* C12: load_data keeps the compounds that occur at least freqthreshold
\* times in the corpus, all entries of a compound counted, and no others; a
\* kept compound that occurs n times has root count cfunc(n)
LoadDataKeepsFrequent ==
  ret.op = "load_data"
    => \A w \in StreamCompounds :
         IF CorpusCount(w, 1) >= ret.args[1]
         THEN /\ w \in GetCompounds(Self)
              /\ analyses[w].rcount
                   = CountModifier(ret.args[2], CorpusCount(w, 1))
         ELSE w \notin GetCompounds(Self)

\* a corpus of running text: two entries of count 1 for the same compound,
\* loaded with freqthreshold 2, and the compound is not in the model
LoadDataDropsTokens ==
  /\ ret.op = "load_data"
  /\ ret.args[1] = 2
  /\ Len(log) = 2
  /\ log[1].atoms = log[2].atoms
  /\ log[1].count = 1 /\ log[2].count = 1
  /\ GetCompounds(Self) = {}


(***************************************************************************)
(* Configuration errors                                                    *)
(***************************************************************************)
\* C13: a call of train_batch or train_online with an algorithm name other
\* than 'recursive' and 'viterbi' does not return, and a call of
\* _set_compound_analysis with a parse type other than 'flat' and 'rbranch'
\* ends in an error
ConfigErrorsRaise ==
  /\ frame.pc = "returned" => frame.algorithm.name # "other"
  /\ ret.op = "set_compound_analysis" /\ ret.args = <<"other">>
       => err = "Error"

\* train_batch returned from a call with an unknown algorithm name on a
\* model with no compounds
UnknownAlgorithmReturned ==
  /\ frame.pc = "returned"
  /\ frame.algorithm.name = "other"
  /\ ret.op = "train_batch"
  /\ err = ""


(***************************************************************************)
(* Negative counts                                                         *)
(***************************************************************************)
\* C14: a count update whose resulting count is negative ends in an error:
\* no node holds a negative count, the corpus accumulator's tokens are not
\* negative, and update_count with new_count < 0 or
\* _modify_construction_count with count + dcount < 0 has raised
NegativeCountRaises ==
  /\ \A w \in DOMAIN analyses : analyses[w].count >= 0
  /\ corpus_coding.tokens >= 0
  /\ ret.op = "update_count" /\ ret.args[2] < 0 => err # ""
  /\ ret.op = "modify_construction_count" /\ ret.args[1] + ret.args[2] < 0
       => err # ""

\* _modify_construction_count took a real construction of count 1 to -1
\* without an error: the node holds -1 and the tokens went down by 2
NegativeCountStored ==
  /\ ret.op = "modify_construction_count"
  /\ ret.args = <<1, -2>>
  /\ err = ""
  /\ ret.compound \in DOMAIN analyses
  /\ analyses[ret.compound].count = -1
  /\ analyses[ret.compound].splitloc = <<>>


(***************************************************************************)
(* Boundary evaluation                                                     *)
(***************************************************************************)
IsOne(q) == q.num = q.den /\ q.den # 0

\* C15: _bpr_evaluation(S, S) of a segmentation set of one or more
\* compounds, each with one or more segmentations, returns precision,
\* recall and F-score 1
SelfEvaluationIsOne ==
  /\ ret.op = "bpr_evaluation"
  /\ ret.args[1] = ret.args[2]
  /\ Len(ret.args[1]) > 0
  => /\ err = ""
     /\ \A k \in 1..3 : IsOne(ret.segs[k])

\* _bpr_evaluation(S, S) returned for two compounds, one with two
\* alternatives that both have boundaries, one with no boundary
SelfEvaluationIsOneWitness ==
  /\ ret.op = "bpr_evaluation"
  /\ ret.args[1] = ret.args[2]
  /\ Len(ret.args[1]) = 2
  /\ Cardinality(ret.args[1][1]) = 2
  /\ \A parts \in ret.args[1][1] : Boundaries(parts) # {}
  /\ \E parts \in ret.args[1][2] : Boundaries(parts) = {}
  /\ err = ""


(***************************************************************************)
(* Annotated-data weight                                                   *)
(***************************************************************************)
\* the corpus contains every annotated compound
CorpusHasAnnotated ==
  \A k \in 1..Len(annot_coding.annotations) :
    annot_coding.annotations[k][1] \in GetCompounds(Self)

\* an epoch update or a cost read was made after
\* set_annotations(annotations, None), on a corpus with the annotated
\* compounds
AutomaticWeightCall ==
  /\ ret.op \in {"epoch_update", "get_cost"}
  /\ annot_coding.supervised
  /\ annot_coding.do_update_weight
  /\ CorpusHasAnnotated

\* C16: after set_annotations(annotations, None) on a corpus with the
\* annotated compounds, every epoch update and every get_cost ends without
\* an error, and an epoch update sets the annotated weight to the corpus
\* weight times the corpus boundaries over the annotated compound types
AutomaticWeightSet ==
  AutomaticWeightCall
  => /\ err = ""
     /\ ret.op = "epoch_update"
        => /\ annot_coding.weight # NoWeight
           /\ annot_coding.weight.num
              * corpus_coding.weight.den * Len(annot_coding.annotations)
              = annot_coding.weight.den
                * corpus_coding.weight.num * corpus_coding.boundaries

\* an epoch update after set_annotations(annotations, None) with two
\* annotated compounds of the corpus chose the annotated constructions and
\* ended in AttributeError, the weight still None
EpochUpdateRaises ==
  /\ AutomaticWeightCall
  /\ ret.op = "epoch_update"
  /\ Len(annot_coding.annotations) = 2
  /\ annot_coding.constructions # <<>>
  /\ annot_coding.weight = NoWeight
  /\ err = "AttributeError"


(***************************************************************************)
(* Forced splits                                                           *)
(***************************************************************************)
\* an atom of the forcesplit_list is in the segment
HasForcedAtom(segment) ==
  \E i \in 1..Len(segment), k \in 1..Len(forcesplit_list) :
    segment[i] = forcesplit_list[k]

\* an optimizer returned for a compound under a non-empty forcesplit_list
OptimizedForced ==
  /\ ret.op \in {"recursive_optimize", "viterbi_optimize"}
  /\ forcesplit_list # <<>>
  /\ err = ""

\* C17: after _recursive_optimize or _viterbi_optimize of a compound under
\* a non-empty forcesplit_list, no segment of the compound's expansion that
\* is longer than one atom contains an atom of the list
ForcedAtomsAlone ==
  OptimizedForced
  => \A k \in 1..Len(ExpandConstruction(Self, ret.compound)) :
       Len(ExpandConstruction(Self, ret.compound)[k]) > 1
       => ~HasForcedAtom(ExpandConstruction(Self, ret.compound)[k])

\* an optimizer returned for a compound that starts with an atom of the
\* forcesplit_list, and the compound is one segment of its expansion
ForcedAtomInside ==
  /\ OptimizedForced
  /\ Len(ret.compound) > 1
  /\ HasForcedAtom(<<ret.compound[1]>>)
  /\ ExpandConstruction(Self, ret.compound) = <<ret.compound>>


(***************************************************************************)
(* Ties of the recursive splitter                                          *)
(***************************************************************************)
\* _recursive_split returned for a construction of two or more atoms
SplitReturned ==
  /\ ret.op = "recursive_split"
  /\ Len(ret.compound) > 1
  /\ err = ""

\* the cost measured with the split at position i
SplitCost(i) == log[i + 1]

\* position i has the lowest cost of the split positions
IsMinimal(i) ==
  \A j \in 1..(Len(ret.compound) - 1) : SplitCost(i) <= SplitCost(j)

\* C18 as stated: when several split positions have the same minimal cost,
\* the committed split point is the earliest of them
CommitsEarliestTie ==
  /\ SplitReturned
  /\ analyses[ret.compound].splitloc # <<>>
  => /\ IsMinimal(analyses[ret.compound].splitloc[1])
     /\ \A j \in 1..(analyses[ret.compound].splitloc[1] - 1) :
          ~IsMinimal(j)

\* C18 amended: when several split positions have the same minimal cost,
\* the committed split point is the latest of them
CommitsLatestTie ==
  /\ SplitReturned
  /\ analyses[ret.compound].splitloc # <<>>
  => /\ IsMinimal(analyses[ret.compound].splitloc[1])
     /\ \A j \in (analyses[ret.compound].splitloc[1] + 1)
                 ..(Len(ret.compound) - 1) :
          ~IsMinimal(j)

\* _recursive_split committed a split of a construction whose two split
\* positions have the same cost
CommitsLatestTieWitness ==
  /\ SplitReturned
  /\ Len(ret.compound) = 3
  /\ analyses[ret.compound].splitloc # <<>>
  /\ SplitCost(1) = SplitCost(2)

\* C19 as stated: when no split position has a cost below the cost of the
\* construction as one real unit, the construction is committed as real
KeepsWholeUnlessImproved ==
  /\ SplitReturned
  /\ \A i \in 1..(Len(ret.compound) - 1) : SplitCost(i) >= log[1]
  => analyses[ret.compound].splitloc = <<>>

\* C19 amended: the construction is committed as real when every split
\* position has a cost above the cost of the construction as one real
\* unit, and is split when some position has that cost or a lower one
KeepsWholeWhenBest ==
  SplitReturned
  => (analyses[ret.compound].splitloc = <<>>
      <=> \A i \in 1..(Len(ret.compound) - 1) : SplitCost(i) > log[1])

\* _recursive_split committed a split that costs what the construction
\* costs as one real unit
KeepsWholeWhenBestWitness ==
  /\ SplitReturned
  /\ analyses[ret.compound].splitloc # <<>>
  /\ SplitCost(analyses[ret.compound].splitloc[1]) = log[1]


(***************************************************************************)
(* Counts along an expansion                                               *)
(***************************************************************************)
\* the sum of count over the nodes rs
RECURSIVE SumCounts(_, _)
SumCounts(M, rs) ==
  IF rs = {} THEN 0
  ELSE M.analyses[CHOOSE r \in rs : TRUE].count
       + SumCounts(M, rs \ {CHOOSE r \in rs : TRUE})

\* the real nodes reachable from the expansion of w
Reachable(w) ==
  {ExpandConstruction(Self, w)[k] :
     k \in 1..Len(ExpandConstruction(Self, w))}

\* C20 as stated: for every compound the sum of count over the real nodes
\* reachable from its expansion is the compound's own count
ReachableCountsSum ==
  \A w \in GetCompounds(Self) :
    SumCounts(Self, Reachable(w)) = analyses[w].count

\* C20 amended: for every compound, every real node reachable from its
\* expansion has at least the compound's count times the node's occurrences
\* in the expansion, and the sum of count over those nodes is the
\* compound's count exactly when the compound is real itself
ReachableCountsBound ==
  \A w \in GetCompounds(Self) :
    /\ \A r \in Reachable(w) :
         analyses[r].count
         >= analyses[w].count * Occurrences(ExpandConstruction(Self, w), r)
    /\ SumCounts(Self, Reachable(w)) = analyses[w].count
       <=> analyses[w].splitloc = <<>>

\* after a count was raised, a compound is split into two different real
\* nodes, one of them with more than the compound's count
ReachableCountsBoundWitness ==
  /\ ret.op = "modify_construction_count"
  /\ \E w \in GetCompounds(Self) :
       /\ analyses[w].splitloc # <<>>
       /\ Cardinality(Reachable(w)) = 2
       /\ \E r \in Reachable(w) :
            analyses[r].count
            > analyses[w].count * Occurrences(ExpandConstruction(Self, w), r)

(***************************************************************************)
(* Integer statistics of the accumulators                                  *)
(***************************************************************************)
\* the sum of rcount over the nodes ws
RECURSIVE SumRcounts(_, _)
SumRcounts(M, ws) ==
  IF ws = {} THEN 0
  ELSE M.analyses[CHOOSE w \in ws : TRUE].rcount
       + SumRcounts(M, ws \ {CHOOSE w \in ws : TRUE})

\* the corpus tokens are the counts of the real nodes, the lexicon
\* boundaries the number of real nodes
TokensAndTypesAgree ==
  /\ corpus_coding.tokens = SumCounts(Self, RealConstructions(Self))
  /\ lexicon_coding.boundaries = Cardinality(RealConstructions(Self))

\* C21 as stated: the corpus tokens are the sum of count over the real
\* nodes, and the boundaries of the lexicon and of the corpus accumulator
\* are the number of real constructions of the store
AccumulatorsCountTypes ==
  /\ TokensAndTypesAgree
  /\ corpus_coding.boundaries = Cardinality(RealConstructions(Self))

\* C21 amended: the corpus tokens are the sum of count over the real nodes,
\* the lexicon boundaries are the number of real constructions, and the
\* corpus boundaries are the sum of the root counts of the compounds
AccumulatorsAgree ==
  /\ TokensAndTypesAgree
  /\ corpus_coding.boundaries = SumRcounts(Self, GetCompounds(Self))

\* after an optimizer ran, the store has two or more real constructions and
\* a compound that was added more than once
AccumulatorsAgreeWitness ==
  /\ ret.op \in {"recursive_optimize", "viterbi_optimize"}
  /\ Cardinality(RealConstructions(Self)) >= 2
  /\ \E w \in GetCompounds(Self) : analyses[w].rcount >= 2
  /\ corpus_coding.boundaries # Cardinality(RealConstructions(Self))

(***************************************************************************)
(* Logarithms of viterbi_segment with smoothing                            *)
(***************************************************************************)
\* the last call was viterbi_segment with addcount > 0
SmoothedSegmentCall ==
  /\ ret.op = "viterbi_segment"
  /\ ret.args[1] > 0

\* C22: viterbi_segment with addcount > 0 never takes the logarithm of a
\* non-positive number, also on a model whose corpus has zero tokens, and
\* returns a segmentation of the (non-empty) compound
SmoothedSegmentReturns ==
  SmoothedSegmentCall
    => /\ err = ""
       /\ ret.segs # <<>>
       /\ Concat(ret.segs, 1) = ret.compound

\* viterbi_segment with addcount > 0 on the model with no tokens and an
\* empty lexicon raised: get_codelength took the logarithm of boundaries = 0
SmoothedSegmentRaises ==
  /\ SmoothedSegmentCall
  /\ corpus_coding.tokens = 0
  /\ lexicon_coding.boundaries = 0
  /\ err = "ValueError"
  /\ ret.segs = <<>>

(***************************************************************************)
(* train_batch with development annotations.  devel is the list of the     *)
(* pairs [compound, analyses] of devel_annotations.get_data(); map_is_list *)
(* tells whether the interpreter's map() returns a list (Python 2) or an   *)
(* iterator that can be read once (Python 3): the module runs under both.  *)
(***************************************************************************)
\* the default maxlen of viterbi_segment
DefaultMaxlen == 30

\* the most epochs of a modelled train_batch call with development data
MaxEpochs == 4

\* [self.viterbi_segment(w)[0] for w in wlist], from entry i on
RECURSIVE DevelSegments(_, _, _)

DevelSegmentsJoin(seg, rest) ==
  [segments |-> <<seg.constructions>> \o rest.segments,
   raised |-> seg.raised \/ rest.raised]

DevelSegments(M, devel, i) ==
  IF i > Len(devel) THEN [segments |-> <<>>, raised |-> FALSE]
  ELSE DevelSegmentsJoin(
         ViterbiSegment(M, devel[i].compound, 1, DefaultMaxlen),
         DevelSegments(M, devel, i + 1))

\* map(lambda x: [x], segments) read as a list
Singletons(segments) == [k \in 1..Len(segments) |-> {segments[k]}]

\* the reference analyses of the development data
DevelReference(devel) == [k \in 1..Len(devel) |-> devel[k].analyses]

\* the return value of _estimate_segmentation_dir given precision and recall
\* (threshold 0.01)
DirOf(pre, rec) ==
  IF (pre.num * rec.den - rec.num * pre.den) * 100 < pre.den * rec.den
     /\ (rec.num * pre.den - pre.num * rec.den) * 100 < pre.den * rec.den
  THEN 0
  ELSE IF rec.num * pre.den > pre.num * rec.den THEN 1
  ELSE -1

DirFrom(bpr) ==
  IF bpr.raised THEN [raised |-> TRUE, d |-> 0]
  ELSE [raised |-> FALSE, d |-> DirOf(bpr.value[1], bpr.value[2])]

\* _estimate_segmentation_dir: the prediction is a map object, which the
\* second _boundary_recall of _bpr_evaluation finds used up under Python 3
EstimateSegmentationDir(segments, annotations, map_is_list) ==
  DirFrom(BprFrom(BoundaryRecall(Singletons(segments), annotations),
                  BoundaryRecall(annotations,
                                 IF map_is_list THEN Singletons(segments)
                                 ELSE <<>>)))

\* self.corpus_coding.weight *= 1 + 2.0 / epochs, or *= 1.0 / (1 + 2.0 / epochs)
TunedWeight(weight, d, epochs) ==
  IF d > 0
  THEN [num |-> weight.num * (epochs + 2), den |-> weight.den * epochs]
  ELSE [num |-> weight.num * epochs, den |-> weight.den * (epochs + 2)]

\* (variant) no epoch is forced after the weight was tuned
ForcedAfterTuningKept(forced_epochs) == forced_epochs

\* if forced_epochs < 2: forced_epochs = 2
ForcedAfterTuning(forced_epochs) ==
  IF forced_epochs < 2 THEN 2 ELSE forced_epochs

\* the stop test at the end of an epoch with development data
DevelTested(M, f) == [M |-> M, f |-> EpochTested(f, M.corpus.boundaries)]

\* the epoch raised the error e
DevelRaised(M, f, e) ==
  [M |-> Raise(M, e), f |-> [f EXCEPT !.pc = "raised"]]

\* the weight was changed: the cost is taken again and epochs are forced
DevelReweighted(M, f, d) ==
  DevelTested(M, [f EXCEPT !.d = d,
                           !.newcost = GetCost(M),
                           !.forced_epochs = ForcedAfterTuning(@)])

\* the corpus weight is tuned in the direction dir.d
DevelTuned(M, f, dir) ==
  IF dir.raised THEN DevelRaised(M, f, "ZeroDivisionError")
  ELSE IF dir.d = 0 THEN DevelTested(M, [f EXCEPT !.d = 0])
  ELSE DevelReweighted(
         [M EXCEPT !.corpus.weight = TunedWeight(@, dir.d, f.epochs)],
         f, dir.d)

\* the development words were segmented
DevelTune(M, f, segs) ==
  IF segs.raised THEN DevelRaised(M, f, "ValueError")
  ELSE DevelTuned(M, f,
                  EstimateSegmentationDir(segs.segments,
                                          DevelReference(f.devel),
                                          f.map_is_list))

\* the end of an epoch of train_batch with development data, the for loop
\* having left the model M: [M |-> the model, f |-> the locals]
DevelEpochEnd(M, f) ==
  IF M.err # "" THEN [M |-> M, f |-> [f EXCEPT !.pc = "raised"]]
  ELSE IF f.devel = <<>> THEN DevelRaised(M, f, "ValueError")
  ELSE DevelTune(M, [f EXCEPT !.epochs = @ + 1,
                              !.oldcost = f.newcost,
                              !.newcost = GetCost(M)],
                 DevelSegments(M, f.devel, 1))

\* the development data given to train_batch
DevelAnnotations ==
  {<<[compound |-> <<"b", "a", "a">>,
      analyses |-> {<<<<"b">>, <<"a", "a">>>>}]>>,
   <<[compound |-> <<"b", "a", "a">>,
      analyses |-> {<<<<"b">>, <<"a">>, <<"a">>>>}]>>,
   <<[compound |-> <<"b", "a">>,
      analyses |-> {<<<<"b">>, <<"a">>>>}],
     [compound |-> <<"a", "a">>,
      analyses |-> {<<<<"a", "a">>>>}]>>}

\* train_batch(algorithm, algorithm_params, devel_annotations,
\* finish_threshold) up to its while loop
TrainBatchDevelStart ==
  /\ err = ""
  /\ frame = Idle
  /\ analyses # <<>>
  /\ \E algorithm \in {a \in Algorithms : a.name # "other"},
        finish_threshold \in FinishThresholds,
        devel \in DevelAnnotations, map_is_list \in BOOLEAN :
       frame' = [pc |-> "train_batch_devel",
                 algorithm |-> algorithm,
                 finish_threshold |-> finish_threshold,
                 devel |-> devel,
                 map_is_list |-> map_is_list,
                 compounds |-> GetCompounds(Self),
                 epochs |-> 0,
                 oldcost |-> 0,
                 newcost |-> GetCost(Self),
                 forced_epochs |-> 1,
                 d |-> 0]
  /\ UNCHANGED <<analyses, corpus_coding, lexicon_coding, forcesplit_list,
                 annot_coding, err, ret, log, use_skips, counter>>

\* the state after an epoch with development data
DevelEpochDone(r) ==
  /\ Commit(r.M)
  /\ frame' = r.f
  /\ ret' = IF r.f.pc = "returned"
            THEN CallWith("train_batch", <<>>,
                          <<r.f.algorithm.name, r.f.finish_threshold>>,
                          <<r.f.epochs, r.f.newcost>>)
            ELSE ret
  /\ UNCHANGED <<annot_coding, log, use_skips, counter>>

\* one pass of the while loop of train_batch with development data
TrainBatchDevelEpoch ==
  /\ frame.pc = "train_batch_devel"
  /\ frame.epochs < MaxEpochs
  /\ \E order \in Orders(frame.compounds) :
       DevelEpochDone(
         DevelEpochEnd(EpochFrom(Self, frame.algorithm, order, 1), frame))

NextDevel ==
  \/ DoAddCompound
  \/ TrainBatchDevelStart
  \/ TrainBatchDevelEpoch

\* load_data, then train_batch with development data
SpecDevel == Init /\ [][NextDevel]_vars

\* C23: in train_batch with development annotations, an epoch at whose end
\* the corpus weight was changed is not the last one: train_batch does not
\* return at the end of that epoch
TunedEpochNotLast ==
  frame.pc = "returned" /\ "devel" \in DOMAIN frame => frame.d = 0

\* the weight was changed at the end of an epoch after which no forced epoch
\* was left and the cost did not go down by more than the threshold
TunedEpochNotLastWitness ==
  /\ frame.pc = "train_batch_devel"
  /\ frame.d # 0
  /\ frame.epochs >= 2
  /\ frame.forced_epochs = 1
  /\ StopsUnforced(0, frame.oldcost, frame.newcost, frame.finish_threshold,
                   corpus_coding.boundaries)

(***************************************************************************)
(* Dampened counts of train_online                                         *)
(***************************************************************************)
\* train_online runs or has returned with a count modifier, no error raised
OnlineDampened ==
  /\ frame.pc \in {"train_online", "returned"}
  /\ "count_modifier" \in DOMAIN frame
  /\ frame.count_modifier # "None"
  /\ err = ""

\* C24 as stated: with a count modifier f, a compound that has appeared
\* n >= 1 times in the stream has the root count f(n)
DampenedRootCount ==
  OnlineDampened
    => \A w \in DOMAIN frame.counts :
         /\ w \in DOMAIN analyses
         /\ analyses[w].rcount
              = CountModifier(frame.count_modifier, frame.counts[w])

\* C24 amended: the first appearance adds 1, later ones f(n) - f(n - 1):
\* for a nondecreasing f the root count after n appearances is
\* 1 + f(n) - f(1), which is f(n) when f(1) = 1
DampenedRootCountFromOne ==
  OnlineDampened
    => \A w \in DOMAIN frame.counts :
         /\ w \in DOMAIN analyses
         /\ analyses[w].rcount
              = 1 + CountModifier(frame.count_modifier, frame.counts[w])
                  - CountModifier(frame.count_modifier, 1)

\* a compound has appeared three times under the log dampening (f(3) = 2),
\* or twice under a modifier with f(1) = 2
DampenedRootCountWitness ==
  /\ OnlineDampened
  /\ \E w \in DOMAIN frame.counts :
       \/ /\ frame.count_modifier = "log"
          /\ frame.counts[w] = 3
          /\ analyses[w].rcount = 2
       \/ /\ frame.count_modifier = "double"
          /\ frame.counts[w] = 2
          /\ analyses[w].rcount = 3

(***************************************************************************)
(* Parse type of load_segmentations                                        *)
(***************************************************************************)
\* load_segmentations returned; entry i of the loaded list is the last one
\* of its compound
LastLoaded(i) ==
  /\ ret.op = "load_segmentations"
  /\ err = ""
  /\ i \in 1..Len(log)
  /\ \A j \in (i + 1)..Len(log) : Compound(log[j]) # Compound(log[i])

\* C25 as stated: a segmentation of k >= 2 parts is loaded as a
\* right-branching chain, the compound's node holding exactly one split
\* point
LoadsRightBranching ==
  \A i \in 1..Len(log) :
    LastLoaded(i) /\ Len(log[i].segmentation) >= 2
      => Len(analyses[Compound(log[i])].splitloc) = 1

\* C25 amended: a segmentation is loaded flat: the compound's node holds the
\* k - 1 boundaries of its k parts, the positions where the parts end
LoadsFlat ==
  \A i \in 1..Len(log) :
    LastLoaded(i)
      => analyses[Compound(log[i])].splitloc
           = SegmentationToSplitloc(log[i].segmentation)

\* a segmentation of three parts was loaded: its node holds two split points
\* and its suffix of two parts is no node of the store
LoadsFlatWitness ==
  \E i \in 1..Len(log) :
    /\ LastLoaded(i)
    /\ Len(log[i].segmentation) = 3
    /\ Len(analyses[Compound(log[i])].splitloc) = 2
    /\ Concat(log[i].segmentation, 2) \notin DOMAIN analyses

(***************************************************************************)
(* Random skips.  log holds the _test_skip calls made since the last       *)
(* _epoch_update: [construction, skipped].                                 *)
(***************************************************************************)
\* the most _test_skip calls of a modelled training pass
MaxVisits == 4

\* values random.random() can return, as fractions in [0, 1)
Randoms == {Fraction(0, 1), Fraction(1, 2), Fraction(3, 4)}

\* random.random() > 1.0 / max(1, t)
SkipDrawn(random, t) == random.num * Max(1, t) > random.den

\* (variant) a skipped visit is counted as well
TestSkipCountsAll(ctr, construction, random) ==
  [counter |-> Put(ctr, construction, CounterGet(ctr, construction) + 1),
   skipped |-> construction \in DOMAIN ctr
               /\ SkipDrawn(random, ctr[construction])]

\* BaselineModel._test_skip: [counter |-> the counter after the call,
\* skipped |-> the return value]
TestSkip(ctr, construction, random) ==
  IF construction \in DOMAIN ctr /\ SkipDrawn(random, ctr[construction])
  THEN [counter |-> ctr, skipped |-> TRUE]
  ELSE [counter |-> Put(ctr, construction, CounterGet(ctr, construction) + 1),
        skipped |-> FALSE]

\* BaselineModel(use_skips=True)
InitSkips ==
  /\ analyses = <<>>
  /\ corpus_coding = NewEncoding(WeightOne)
  /\ lexicon_coding = NewLexiconEncoding
  /\ forcesplit_list = <<>>
  /\ err = ""
  /\ ret = Call("init", <<>>, <<>>)
  /\ annot_coding = Unsupervised
  /\ frame = Idle
  /\ log = <<>>
  /\ use_skips = TRUE
  /\ counter = <<>>

\* _test_skip(construction), as the optimizers call it when use_skips is on
DoTestSkip ==
  /\ use_skips
  /\ frame = Idle
  /\ Len(log) < MaxVisits
  /\ \E construction \in Compounds, random \in Randoms :
       /\ counter' = TestSkip(counter, construction, random).counter
       /\ log' = Append(log, [construction |-> construction,
                              skipped |-> TestSkip(counter, construction,
                                                   random).skipped])
       /\ ret' = CallWith("test_skip", construction, <<random>>,
                          <<TestSkip(counter, construction, random).skipped>>)
  /\ UNCHANGED <<analyses, corpus_coding, lexicon_coding, forcesplit_list,
                 annot_coding, err, frame, use_skips>>

NextSkips ==
  \/ DoTestSkip
  \/ DoEpochUpdate

\* the visit counters of a model with random skips
SpecSkips == InitSkips /\ [][NextSkips]_vars

\* the visits of the construction in the current pass
Visits(construction) ==
  {i \in 1..Len(log) : log[i].construction = construction}

\* those of them that were not skipped
VisitsTaken(construction) ==
  {i \in Visits(construction) : ~log[i].skipped}

\* an epoch update empties the counter, and the first visit of a
\* construction after it is not skipped
ResetAndFirstTaken ==
  /\ ret.op = "epoch_update" => counter = <<>>
  /\ \A construction \in Compounds :
       \A i \in Visits(construction) :
         (\A j \in Visits(construction) : i <= j) => ~log[i].skipped

\* C26 as stated: with use_skips on, every epoch update resets the counter,
\* the first visit of a construction after it is never skipped, and the
\* counter of a construction after k visits in a pass, skipped or not, is k
CounterCountsVisits ==
  use_skips
    => /\ ResetAndFirstTaken
       /\ \A construction \in Compounds :
            CounterGet(counter, construction)
              = Cardinality(Visits(construction))

\* C26 amended: the counter of a construction is the number of its visits in
\* the pass that were not skipped: a skipped visit leaves it as it is
CounterCountsTaken ==
  use_skips
    => /\ ResetAndFirstTaken
       /\ \A construction \in Compounds :
            CounterGet(counter, construction)
              = Cardinality(VisitsTaken(construction))

\* the third visit of a construction in a pass was skipped: its counter is 2
CounterCountsTakenWitness ==
  /\ use_skips
  /\ ret.op = "test_skip"
  /\ ret.segs = <<TRUE>>
  /\ Cardinality(Visits(ret.compound)) = 3
  /\ counter[ret.compound] = 2

(***************************************************************************)
(* Root counts under re-optimization                                       *)
(***************************************************************************)
\* the root count of a construction in the store a, 0 if it is no node
RcountIn(a, construction) ==
  IF construction \in DOMAIN a THEN a[construction].rcount ELSE 0

\* the compounds of the store a
CompoundsIn(a) == {w \in DOMAIN a : a[w].rcount > 0}

\* the step is a call of _recursive_optimize or _viterbi_optimize
OptimizeStep == ret'.op \in {"recursive_optimize", "viterbi_optimize"}

\* C27: _recursive_optimize and _viterbi_optimize of a compound leave the
\* rcount of every construction, the set of compounds, the count of the
\* optimized construction and the corpus boundaries as they were
OptimizeKeepsRootCounts ==
  [][OptimizeStep
       => /\ \A c \in DOMAIN analyses \cup DOMAIN analyses' :
               RcountIn(analyses', c) = RcountIn(analyses, c)
          /\ CompoundsIn(analyses') = CompoundsIn(analyses)
          /\ ret'.compound \in DOMAIN analyses
          /\ ret'.compound \in DOMAIN analyses'
          /\ analyses'[ret'.compound].count = analyses[ret'.compound].count
          /\ corpus_coding'.boundaries = corpus_coding.boundaries]_vars

\* an optimizer split a compound that was added more than once and that is
\* also a part of another compound of the store
OptimizeKeepsRootCountsWitness ==
  /\ ret.op \in {"recursive_optimize", "viterbi_optimize"}
  /\ err = ""
  /\ analyses[ret.compound].splitloc # <<>>
  /\ analyses[ret.compound].rcount >= 2
  /\ analyses[ret.compound].count > analyses[ret.compound].rcount
  /\ Cardinality(CompoundsIn(analyses)) >= 2

(***************************************************************************)
(* viterbi_segment without smoothing                                       *)
(***************************************************************************)
\* C28: viterbi_segment with addcount = 0 and maxlen >= 1 returns segments
\* of length 1..maxlen that concatenate to the compound, and every segment
\* longer than one atom is a real construction of positive count
UnsmoothedSelectsKnown ==
  ret.op = "viterbi_segment" /\ ret.args[1] = 0
    => /\ err = ""
       /\ Concat(ret.segs, 1) = ret.compound
       /\ \A k \in 1..Len(ret.segs) :
            /\ Len(ret.segs[k]) \in 1..ret.args[2]
            /\ Len(ret.segs[k]) > 1
                 => /\ IsReal(Self, ret.segs[k])
                    /\ analyses[ret.segs[k]].count > 0

\* a segmentation without smoothing that has a real construction of two or
\* more atoms and an atom that is no node of the store
UnsmoothedSelectsKnownWitness ==
  /\ ret.op = "viterbi_segment"
  /\ ret.args[1] = 0
  /\ err = ""
  /\ \E k \in 1..Len(ret.segs) :
       Len(ret.segs[k]) > 1 /\ IsReal(Self, ret.segs[k])
  /\ \E k \in 1..Len(ret.segs) :
       Len(ret.segs[k]) = 1 /\ ret.segs[k] \notin DOMAIN analyses

(***************************************************************************)
(* The segment list the recursive optimizer returns                        *)
(***************************************************************************)
\* a corpus whose longest compound holds a shorter one twice
SharedCompounds ==
  {<<"a">>, <<"b">>, <<"b", "a">>, <<"b", "a", "b", "a", "b">>}

\* _add_compound(compound, c) of a compound of that corpus
DoAddShared ==
  \E w \in SharedCompounds, c \in 1..MaxBoundaries :
    /\ err = ""
    /\ Direct
    /\ corpus_coding.boundaries + c <= MaxBoundaries
    /\ Commit(AddCompound(Self, w, c))
    /\ ret' = Call("add_compound", w, <<>>)

NextShared ==
  \/ DoAddShared
  \/ DoRecursiveOptimize

\* the recursive optimizer on a corpus with shared sub-constructions
SpecShared == Init /\ [][NextShared]_vars

\* C29: with the random skips off, the segment list _recursive_optimize(w)
\* returns is _expand_construction(w) in the state the call leaves behind
ReturnsExpansion ==
  ret.op = "recursive_optimize" /\ err = ""
    => ret.segs = ExpandConstruction(Self, ret.compound)

\* _recursive_optimize returned a list with a segment that the store the
\* call left behind holds split: the segment was returned for the prefix
\* and split afterwards, when the recursion came to it again in the suffix
ReturnsStaleSegment ==
  /\ ret.op = "recursive_optimize"
  /\ err = ""
  /\ Concat(ret.segs, 1) = ret.compound
  /\ ret.segs # ExpandConstruction(Self, ret.compound)
  /\ \E k \in 1..Len(ret.segs) :
       /\ ret.segs[k] \in DOMAIN analyses
       /\ analyses[ret.segs[k]].splitloc # <<>>

(***************************************************************************)
(* Well-formed split points                                                *)
(***************************************************************************)
\* the split points are strictly increasing and lie in 1..n-1
SplitlocIncreasing(splitloc, n) ==
  /\ \A k \in 1..Len(splitloc) : splitloc[k] \in 1..(n - 1)
  /\ \A k \in 1..(Len(splitloc) - 1) : splitloc[k] < splitloc[k + 1]

\* C30: in every reachable state no empty construction is stored, and the
\* split points of every node of length n are strictly increasing and lie
\* in 1..n-1, so that every child is non-empty and shorter than its parent
SplitlocWellFormed ==
  \A w \in DOMAIN analyses :
    /\ Len(w) >= 1
    /\ SplitlocIncreasing(analyses[w].splitloc, Len(w))

\* _recursive_optimize with a forcesplit list left the empty construction
\* in the store as a real node, the child of a compound whose split points
\* repeat a position
EmptyConstructionStored ==
  /\ ret.op = "recursive_optimize"
  /\ err = ""
  /\ forcesplit_list # <<>>
  /\ <<>> \in DOMAIN analyses
  /\ analyses[<<>>].count >= 1
  /\ \E k \in 1..(Len(analyses[ret.compound].splitloc) - 1) :
       analyses[ret.compound].splitloc[k]
         = analyses[ret.compound].splitloc[k + 1]

====
